---- MODULE Spec2Model ----
(***************************************************************************)
(* A model of the gatekeeper API-testing engine: the plan sequencers       *)
(* (sat_core/order_testcases.py, agents/workflow_nodes.py,                 *)
(* runners/test_executor.py), the HTTP clients (runners/api_client.py,     *)
(* sat_core/call_api.py), the $ref resolver (parsers/swagger_parser.py,    *)
(* sat_core/parse_swagger_file.py), the response validator                 *)
(* (sat_core/reporting.py), the reporter (reporters/test_reporter.py) and  *)
(* the agent's workflow (agents/api_testing_agent.py, server.py), runs     *)
(* sharing the process-wide singletons (agents/state.py), and the flows    *)
(* that execute generated cases (server.py, sat_core/run_positive_flow.py, *)
(* database/models.py); and, each on its own, the ingestion routes         *)
(* (sat_core/insert_apis_into_db.py, app/routers/apis.py), the execution   *)
(* of listed endpoints (static/backend_interface.py, main.py), the parsing *)
(* of planning answers, the reporter's two serializations, the client's    *)
(* retry backoff, the direct execution routes of server.py and the         *)
(* workflow status of agents/state.py.                                     *)
(***************************************************************************)
EXTENDS Integers, Sequences, FiniteSets, TLC

VARIABLES
    flow,             \* which sequencer runs: one of Flows
    pc,               \* position of the sequencer
    tables,           \* endpoint ids whose tables are still to be processed
    table_name,       \* table of the endpoint under test
    order,            \* the plan being executed (execution_order / order)
    step,             \* index of the current plan item, from 1
    testcase,         \* the stored case the current item resolved to
    req,              \* the request built for the current item (req / execution_case)
    attempt,          \* make_request: retries done so far
    last_error,       \* make_request: last_error
    result,           \* the outcome returned by the HTTP client
    executions_logs,  \* the execution history: key -> reference into heap
    heap,             \* the dict objects the history entries refer to
    outcomes,         \* observed: what each attempt of the current HTTP call met
    calls,            \* observed: the HTTP executions of the run, in order
    executed,         \* observed: every record written to the history, in order
    skipped,          \* observed: plan items skipped so far
    snapshot,         \* observed: the history given to the oracle for the current item
    response_text,    \* observed: what the enrichment oracle answered for the item
                      \* in progress
    swagger_file,     \* the specification document as the file holds it
    swagger_data,     \* the loaded document that extract_endpoints is given
    extracted,        \* observed: every extract_endpoints run: the document it was
                      \* given and the endpoint list as it returned it
    overflow,         \* observed: a resolution ran out of recursion depth
    parsed,           \* observed: every sat_core parse_swagger run: the document in
                      \* the file and what the call came to
    current_step,     \* the workflow node the agent is at, "" outside an agent run
    errors,           \* state["errors"] is not empty
    cancel_requested, \* RunState.cancel_requested of the run
    execution_logs,   \* state["execution_logs"] once the positive flow has returned
    suite,            \* TestSuiteReport.test_results: the results added so far
    test_results,     \* the summary the run returned: state["test_results"] /
                      \* execute_test_suite's results / TestSuiteReport.summary
    validation,       \* observed: the last validate_response call and its return
    state_manager,    \* the execution_logs dict of the state the global StateManager holds
    run_pc,           \* position of each agent run's thread
    run_state,        \* the execution_logs dict of each run's graph state
    run_step,         \* plan items each run's positive flow has recorded
    dicts,            \* the execution_logs dict objects: key -> the run that wrote it
    current_report,   \* TestReporter.current_report of the global reporter
    run_report,       \* the report each run's report node finalized
    carried,          \* observed: the history each further execute_test_suite call
                      \* on the same executor found when it began
    mapping,          \* the generated cases of each endpoint, as the mapping and the
                      \* endpoint's table hold them: their test_type, in stored order
    exemplars,        \* observed: every run of a positive flow: the cases it executed
    api_endpoints,    \* the rows of sat_core's api_endpoints table
    api_specs,        \* the rows of the application's api_specs table, by id
    ingested,         \* observed: the last ingestion: its route and the
                      \* specification it was given
    selections,       \* observed: every request to run the cases of a list of
                      \* endpoints: the list and the endpoints that were tested
    plannings,        \* observed: every plan a sequencer was given by the planning
                      \* oracle: the answer, and how far the sequencer got with it
    serialized,       \* observed: the last pair of serializations of the
                      \* reporter's report, the JSON form and the text form
    backoff,          \* the retry loop of the client call in progress: its
                      \* locals, and as observed the sleeps it has made (ms)
    direct,           \* observed: the last call of a direct execution route: the
                      \* cases it executed and what it came to
    marked            \* the steps the StateManager holds as completed in the
                      \* workflow run under way, and as observed the nodes
                      \* that returned without an error

seqVars == <<flow, pc, tables, table_name, order, step, testcase, req, attempt,
             last_error, result, executions_logs, heap, outcomes, calls, executed,
             skipped, snapshot, response_text>>

resVars == <<swagger_file, swagger_data, extracted, overflow, parsed>>

repVars == <<current_step, errors, cancel_requested, execution_logs, suite,
             test_results, validation>>

selVars == <<mapping, exemplars>>

dbVars == <<api_endpoints, api_specs, ingested>>

extVars == <<dbVars, selections, plannings, serialized, backoff, direct, marked>>

\* What the actions on one of these leave alone.
exceptIngest == <<selections, plannings, serialized, backoff, direct, marked>>
exceptSelections == <<dbVars, plannings, serialized, backoff, direct, marked>>
exceptPlannings == <<dbVars, selections, serialized, backoff, direct, marked>>
exceptSerialized == <<dbVars, selections, plannings, backoff, direct, marked>>
exceptBackoff == <<dbVars, selections, plannings, serialized, direct, marked>>
exceptDirect == <<dbVars, selections, plannings, serialized, backoff, marked>>
exceptMarked == <<dbVars, selections, plannings, serialized, backoff, direct>>

srvVars == <<state_manager, run_pc, run_state, run_step, dicts, current_report,
             run_report, carried, selVars, extVars>>

vars == <<seqVars, resVars, repVars, srvVars>>

\* ------------------------------------------------------------------ bounds

\* Plan items handled in one run, over all the plans of the run.
MaxPlan == 3

\* extract_endpoints runs in one session.
MaxRuns == 2

\* Nested calls a resolution may make: the interpreter's recursion limit.
MaxDepth == 10

\* Results added to one suite report in a reporting session.
MaxResults == 5

\* Agent runs started on one server process.
MaxThreads == 2

\* Test cases generated for one endpoint.
MaxCases == 2

\* Endpoint ids in the execution order of a positive flow.
MaxOrder == 2

\* Cases in a direct execution.
MaxDirect == 3

\* The largest config.api.max_retries a client is configured with.
MaxRetries == 6

\* Results in a report that is serialized.
MaxListed == 3

\* Items in a planning answer.
MaxItems == 2

\* Ids in a list of endpoints.
MaxIds == 2

\* Ingestions in a session.
MaxIngests == 2

\* ------------------------------------------------------- program constants

\* APIConfig.max_retries
max_retries == 3

\* Python's None, and a present value.
None == <<>>
Some(x) == <<x>>

\* ------------------------------------------------------------ stored data

\* endpoint id -> test case table (global_state.endpoint_tables,
\* state["endpoint_tables"]); dicts iterate in insertion order.
endpoint_tables == (1 :> "t1") @@ (7 :> "t7")
TableOrder == <<1, 7>>

\* A stored test case; expected_schema is stored as {} when the case has none.
Row(id, test_name, url, method, expected_status) ==
    [id |-> id, test_name |-> test_name, url |-> url, method |-> method,
     expected_status |-> expected_status, expected_schema |-> [type |-> None,
                                                               required |-> {}]]

\* The rows of a test case table, in primary key order (ids are per table):
\* a2 is a negative case, it expects the error status.
Rows(table) ==
    IF table = "t1"
    THEN << Row(1, "a1", "/a", "POST", 200), Row(2, "a2", "/a", "POST", 500) >>
    ELSE IF table = "t7"
    THEN << Row(1, "b1", "/b", "GET", 200) >>
    ELSE << >>

\* TestCaseRepository.get_test_cases: every row of the table.
get_test_cases(table) == Rows(table)

\* TestCaseRepository.get_test_case_by_id / SELECT ... WHERE id = pk.
get_test_case_by_id(table, pk) ==
    LET hits == SelectSeq(Rows(table), LAMBDA r : r.id = pk)
    IN  IF hits = << >> THEN None ELSE Some(hits[1])

\* SELECT * FROM table LIMIT 1 / test_cases[0] when there is any row.
FirstRow(table) ==
    IF Rows(table) = << >> THEN None ELSE Some(Rows(table)[1])

\* ------------------------------------------------------------------ plans

Flows == {"order_testcases", "all_tests_node", "positive_flow_node", "test_suite"}
TableFlows == {"order_testcases", "all_tests_node"}

EndpointRef(e) == [key |-> "all_endpoints", value |-> e]
TestCaseRef(t) == [key |-> "all_testcases", value |-> t]

\* The items the planning oracle may return: endpoint 2 is in no table map,
\* case 2 exists in t1 only.
Items == {EndpointRef(2), EndpointRef(7), TestCaseRef(1), TestCaseRef(2)}

\* The positive flow's execution_order is a list of endpoint ids.
EndpointItems == {EndpointRef(1), EndpointRef(2), EndpointRef(7)}

PlansOver(S, n) == UNION {[1..k -> S] : k \in 0..n}

\* ------------------------------------------------------ resolving an item

Found(c) == [err |-> "none", case |-> c]
KeyError == [err |-> "KeyError", case |-> None]

\* order_testcases_and_execute: the item -> the stored case, or None (skip).
ResolveOrderTestcases(item, table) ==
    IF item.key = "all_endpoints"
    THEN IF item.value \in DOMAIN endpoint_tables
         THEN Found(FirstRow(endpoint_tables[item.value]))
         ELSE Found(None)
    ELSE Found(get_test_case_by_id(table, item.value))

\* run_all_possible_tests_node: endpoint_tables_maps[value] raises KeyError
\* for an endpoint id that is not in the map.
ResolveAllTestsNode(item, table) ==
    IF item.key = "all_endpoints"
    THEN IF item.value \in DOMAIN endpoint_tables
         THEN Found(FirstRow(endpoint_tables[item.value]))
         ELSE KeyError
    ELSE Found(get_test_case_by_id(table, item.value))

\* _execute_test_case_by_id: the first table, in map order, that has the id.
RECURSIVE FindInTables(_, _)
FindInTables(ids, pk) ==
    IF ids = << >> THEN None
    ELSE LET c == get_test_case_by_id(endpoint_tables[Head(ids)], pk)
         IN  IF c # None THEN c ELSE FindInTables(Tail(ids), pk)

\* execute_test_suite: _execute_endpoint_setup / _execute_test_case_by_id.
ResolveTestSuite(item) ==
    IF item.key = "all_endpoints"
    THEN IF item.value \in DOMAIN endpoint_tables
         THEN Found(FirstRow(endpoint_tables[item.value]))
         ELSE Found(None)
    ELSE Found(FindInTables(TableOrder, item.value))

\* run_positive_flow_node: endpoint_tables_maps[current_id], then the first row.
ResolvePositive(item) ==
    IF item.value \in DOMAIN endpoint_tables
    THEN Found(FirstRow(endpoint_tables[item.value]))
    ELSE KeyError

Resolve(f, item, table) ==
    CASE f = "order_testcases"    -> ResolveOrderTestcases(item, table)
      [] f = "all_tests_node"     -> ResolveAllTestsNode(item, table)
      [] f = "test_suite"         -> ResolveTestSuite(item)
      [] f = "positive_flow_node" -> ResolvePositive(item)

\* ------------------------------------------------------------- enrichment

\* What the enrichment oracle may answer: text that is not JSON, JSON that is
\* not a map, or a map with (or without) a url.
OracleUrls == {"/a", "/b"}
OracleTexts ==
    {[kind |-> "garbage", url |-> None], [kind |-> "nonmap", url |-> None],
     [kind |-> "map", url |-> None]}
    \cup {[kind |-> "map", url |-> Some(u)] : u \in OracleUrls}

\* JSON null where a url is expected: Python's None, kept a string so that
\* urls stay comparable.
NullUrl == "null"

\* What the oracle may answer in an agent run: as above, or a map whose url
\* is null.
AgentTexts ==
    {[kind |-> "garbage", url |-> None], [kind |-> "nonmap", url |-> None],
     [kind |-> "map", url |-> None], [kind |-> "map", url |-> Some(NullUrl)]}

\* No answer yet.
NoText == [kind |-> "", url |-> None]

\* llm_input: order_testcases.py passes the url under the key "endpoint", the
\* other sequencers under "url".
LlmInput(f, c) ==
    [ismap |-> TRUE, url |-> IF f = "order_testcases" THEN None ELSE Some(c.url)]

\* A parser with no except branch: the parse error is taken for an answer
\* that is no map.
ParseEnrichment_NoFallback(text, llm_input) ==
    IF text.kind = "map" THEN [ismap |-> TRUE, url |-> text.url]
    ELSE [ismap |-> FALSE, url |-> None]

\* strip, json.loads, and the except branch: only a parse error falls back
\* to llm_input; whatever json.loads returns is taken as it is.
ParseEnrichment(text, llm_input) ==
    CASE text.kind = "garbage" -> llm_input
      [] text.kind = "nonmap"  -> [ismap |-> FALSE, url |-> None]
      [] text.kind = "map"     -> [ismap |-> TRUE, url |-> text.url]

\* enriched_fields.get("url", testcase["url"]) and the method from the row.
BuildRequest(enriched_fields, c) ==
    [url    |-> IF enriched_fields.url = None THEN c.url ELSE enriched_fields.url[1],
     method |-> c.method]

\* ------------------------------------------------------------ HTTP client

Statuses == {200, 500}
Exceptions == {"Timeout", "ConnectionError", "RequestException"}

\* What one session.request / requests.request call can meet.
AttemptOutcomes ==
    {[exc |-> "none", status |-> Some(s)] : s \in Statuses}
    \cup {[exc |-> e, status |-> None] : e \in Exceptions}

\* The target of a sequencer run answers, or times out.
RunOutcomes == {o \in AttemptOutcomes : o.exc \in {"none", "Timeout"}}

\* A retry loop that also retries after a non-network request exception.
IsRetryable_AnyException(o) == o.exc # "none"

\* The except clauses of the retry loop that fall through to the retry.
IsRetryable(o) == o.exc \in {"Timeout", "ConnectionError"}

\* A retry loop that stops one attempt late.
RetriesExhausted_Late(a) == a > max_retries

\* if attempt >= retries: break
RetriesExhausted(a) == a >= max_retries

ErrorText(e) ==
    CASE e = "Timeout"          -> "Request timeout"
      [] e = "ConnectionError"  -> "Connection error"
      [] e = "RequestException" -> "Request failed"

\* APIResponse(...).to_dict()
APIResponse(status_code, error, timed) ==
    [status_code |-> status_code, error |-> error, timed |-> timed,
     success |-> status_code # None /\ status_code[1] >= 200 /\ status_code[1] < 300]

\* call_api's result dict: it has no success and no elapsed time.
CallApiResult(o) ==
    IF o.exc = "none"
    THEN [status_code |-> o.status, error |-> None, timed |-> FALSE, success |-> FALSE]
    ELSE [status_code |-> None, error |-> Some(o.exc), timed |-> FALSE,
          success |-> FALSE]

NoResult == [status_code |-> None, error |-> None, timed |-> FALSE, success |-> FALSE]
NoRequest == [url |-> "", method |-> ""]
NoCase == Row(0, "", "", "", 0)

\* ---------------------------------------------------------------- history

\* The history as the oracle and the report read it: key -> the dict stored.
Deref(logs, h) == [k \in DOMAIN logs |-> h[logs[k]]]

\* The key an execution is recorded under.
LogKey(f, c, r) == IF f = "positive_flow_node" THEN r.url ELSE c.test_name

Processed == Len(executed) + skipped

\* ------------------------------------------------------------- documents

\* A JSON value of the specification document.  A string is kept as its
\* parts between "/", so that a pointer can be split; a dict keeps its keys in
\* insertion order, as Python does; a list is a dict whose keys do not matter.
Str(s) == [k |-> "str", s |-> s, items |-> << >>]
Dict(items) == [k |-> "dict", s |-> << >>, items |-> items]
List(items) == [k |-> "list", s |-> << >>, items |-> items]
Entry(key, val) == [key |-> key, val |-> val]

\* key in d
HasKey(d, key) == \E i \in 1..Len(d.items) : d.items[i].key = key

\* d[key]
Get(d, key) == d.items[CHOOSE i \in 1..Len(d.items) : d.items[i].key = key].val

\* d[key] = val
Put(d, key, val) ==
    IF HasKey(d, key)
    THEN Dict([i \in 1..Len(d.items) |->
                  IF d.items[i].key = key THEN Entry(key, val) ELSE d.items[i]])
    ELSE Dict(Append(d.items, Entry(key, val)))

\* The pointer "#/definitions/<name>" and the schema {"$ref": pointer}.
Pointer(name) == <<"#", "definitions", name>>
Ref(pointer) == Dict(<<Entry("$ref", Str(pointer))>>)

SchemaNames == {"A", "B"}
Pointers == {Pointer(n) : n \in SchemaNames \cup {"Z"}}

\* The schemas of the documents: a string, a reference (to A, to B, or to Z,
\* which no document defines), or an object of two properties.
Leaves == {Str(<<"string">>)} \cup {Ref(p) : p \in Pointers}
Properties == {Str(<<"string">>)} \cup {Ref(Pointer(n)) : n \in SchemaNames}
Schemas == Leaves \cup {Dict(<<Entry("x", x), Entry("y", y)>>) : x, y \in Properties}

\* One operation, POST /p, with an OpenAPI 3 request body and a Swagger 2
\* response, over the shared definitions A and B.
Document(a, b, body, response) ==
    Dict(<<Entry("paths", Dict(<<Entry("/p", Dict(<<
              Entry("parameters", List(<< >>)),
              Entry("post", Dict(<<
                 Entry("requestBody", Dict(<<Entry("content", Dict(<<
                    Entry("application/json", Dict(<<Entry("schema", body)>>))>>))>>)),
                 Entry("responses", Dict(<<
                    Entry("200", Dict(<<Entry("schema", response)>>))>>))>>))>>))>>)),
           Entry("definitions", Dict(<<Entry("A", a), Entry("B", b)>>))>>)

Documents ==
    {Document(a, b, body, response) :
        a \in Schemas, b \in Schemas, body \in Schemas,
        response \in {Str(<<"string">>), Ref(Pointer("A"))}}

\* --------------------------------------------------------------- resolver

\* The one element of a singleton set.  {f(v) : v \in {e}} computes e once,
\* however often f uses v.
The(S) == CHOOSE v \in S : TRUE

\* The walk of resolve_reference from a node along the parts of a pointer.
RECURSIVE Walk(_, _)
Walk(node, parts) ==
    IF parts = << >> THEN Some(node)
    ELSE IF node.k # "dict" \/ ~HasKey(node, Head(parts)) THEN None
    ELSE Walk(Get(node, Head(parts)), Tail(parts))

\* ReferenceResolver.resolve_reference: None for a pointer that does not start
\* with "#/" or that names a missing part.
resolve_reference(doc, ref) ==
    IF ref = << >> \/ Head(ref) # "#" THEN None ELSE Walk(doc, Tail(ref))

\* seen_refs.add(ref), without it
AddSeen_Forgotten(seen_refs, ref) == seen_refs

\* seen_refs.add(ref)
AddSeen(seen_refs, ref) == seen_refs \cup {ref}

\* ReferenceResolver.resolve_schema_recursively (sat_core's resolve_schema is
\* the same function).  seen_refs is ONE set object handed to every nested
\* call, so the result carries it on to the next sibling.  depth is what is
\* left of the interpreter's recursion limit; ok is FALSE when it ran out.
RECURSIVE resolve_schema_recursively(_, _, _, _)
RECURSIVE ResolveEach(_, _, _, _)
ResolveEach(doc, items, seen_refs, depth) ==
    IF items = << >> THEN [out |-> << >>, seen |-> seen_refs, ok |-> TRUE]
    ELSE The({The({[out |-> <<Entry(Head(items).key, h.out)>> \o t.out,
                    seen |-> t.seen, ok |-> h.ok /\ t.ok] :
                   t \in {ResolveEach(doc, Tail(items), h.seen, depth)}}) :
              h \in {resolve_schema_recursively(doc, Head(items).val, seen_refs,
                                                depth)}})

resolve_schema_recursively(doc, schema, seen_refs, depth) ==
    IF depth = 0 THEN [out |-> schema, seen |-> seen_refs, ok |-> FALSE]
    ELSE IF schema.k = "dict" /\ HasKey(schema, "$ref")
    THEN The({IF ref \in seen_refs
              THEN [out |-> Ref(ref), seen |-> seen_refs, ok |-> TRUE]
              ELSE The({IF resolved = None
                        THEN [out |-> schema, seen |-> seen, ok |-> TRUE]
                        ELSE resolve_schema_recursively(doc, resolved[1], seen,
                                                        depth - 1) :
                        seen \in {AddSeen(seen_refs, ref)},
                        resolved \in {resolve_reference(doc, ref)}}) :
              ref \in {Get(schema, "$ref").s}})
    ELSE IF schema.k \in {"dict", "list"}
    THEN The({[out |-> [schema EXCEPT !.items = r.out], seen |-> r.seen, ok |-> r.ok] :
              r \in {ResolveEach(doc, schema.items, seen_refs, depth - 1)}})
    ELSE [out |-> schema, seen |-> seen_refs, ok |-> TRUE]

\* A resolution as the extractor starts it: seen_refs = None, a new set.
ResolveSchema(doc, schema) == resolve_schema_recursively(doc, schema, {}, MaxDepth)

\* No specification is loaded and nothing has been extracted.
ResolverIdle ==
    /\ swagger_file = None
    /\ swagger_data = None
    /\ extracted = << >>
    /\ overflow = FALSE
    /\ parsed = << >>

\* -------------------------------------------------------------- reporting

\* A response body: a JSON object with the given property names, or a text.
\* No body is None: response.json() returned None for the JSON text null.
Object(keys) == [kind |-> "object", keys |-> keys]
Text == [kind |-> "string", keys |-> {}]
Bodies == {Object({}), Object({"id"}), Text}

\* A JSON schema of draft 7, by its keywords type and required; {} has none.
Schema(type, required) == [type |-> type, required |-> required]
EmptySchema == Schema(None, {})
ExpectedSchemas ==
    {EmptySchema, Schema(Some("object"), {"id"}), Schema(None, {"id"})}

\* Draft7Validator(schema).validate(data): the ValidationError it raises, if
\* any. required constrains objects only.
ValidationError(schema, data) ==
    IF schema.type # None /\ data.kind # schema.type[1]
    THEN Some("is not of type")
    ELSE IF data.kind = "object" /\ schema.required \ data.keys # {}
    THEN Some("is a required property")
    ELSE None

\* A validator that checks the schema whatever the status was.
SchemaBranch_Unskipped(status_ok, expected_schema, data) ==
    CASE expected_schema = EmptySchema -> "none"
      [] data = None -> "missing"
      [] ValidationError(expected_schema, data[1]) = None -> "valid"
      [] OTHER -> "invalid"

\* The branch validate_response takes under "# Schema validation".
SchemaBranch(status_ok, expected_schema, data) ==
    CASE expected_schema = EmptySchema -> "none"
      [] ~status_ok -> "skipped"
      [] data = None -> "missing"
      [] ValidationError(expected_schema, data[1]) = None -> "valid"
      [] OTHER -> "invalid"

\* The message appended to details["errors"] in a branch.
SchemaErrors(branch, expected_schema, data) ==
    CASE branch = "skipped" -> << "Schema skipped due to failed status code" >>
      [] branch = "missing" -> << "Response data missing or None." >>
      [] branch = "invalid" -> << ValidationError(expected_schema, data[1])[1] >>
      [] OTHER -> << >>

\* validate_response(result, expected_status, expected_schema): passed is set
\* to False by a status mismatch and by a ValidationError, by nothing else.
validate_response(res, expected_status, expected_schema) ==
    LET status_ok == res.status_code = Some(expected_status)
        branch == SchemaBranch(status_ok, expected_schema, res.data)
    IN  [passed  |-> status_ok /\ branch # "invalid",
         details |->
            [status_validation |-> [expected |-> expected_status,
                                    actual |-> res.status_code,
                                    passed |-> status_ok],
             schema_validation |-> IF branch = "none" THEN None
                                   ELSE Some([passed |-> branch = "valid"]),
             errors |-> SchemaErrors(branch, expected_schema, res.data)]]

\* TestResult: the fields of a result that the summary and the claims read.
TestResult(test_name, response) ==
    [test_name |-> test_name, success |-> response.success,
     status_code |-> response.status_code, error_message |-> response.error]

\* TestReporter.add_execution_logs: one TestResult per key of the history, in
\* the order the keys were inserted; success is the response's own flag.
RECURSIVE add_execution_logs(_, _)
add_execution_logs(keys, logs) ==
    IF keys = << >> THEN << >>
    ELSE << TestResult(Head(keys), logs[Head(keys)].response) >>
         \o add_execution_logs(Tail(keys), logs)

\* A summary that counts every result as passed.
Passed_All(results) == Len(results)

\* sum(1 for result in self.test_results if result.success)
Passed(results) == Len(SelectSeq(results, LAMBDA r : r.success))

\* round(passed / total * 100, 2), in hundredths of a percent; 0 when there
\* is no result.
SuccessRate(passed_tests, total_tests) ==
    IF total_tests > 0
    THEN (20000 * passed_tests + total_tests) \div (2 * total_tests)
    ELSE 0

\* TestSuiteReport._calculate_summary
calculate_summary(results) ==
    [total_tests  |-> Len(results),
     passed_tests |-> Passed(results),
     failed_tests |-> Len(results) - Passed(results),
     success_rate |-> SuccessRate(Passed(results), Len(results))]

\* execute_test_suite's results: the history's size, and as passed the entries
\* whose response has success set.
SuiteResults(logs) ==
    LET passed == Cardinality({k \in DOMAIN logs : logs[k].response.success})
    IN  [total_tests |-> Cardinality(DOMAIN logs), passed_tests |-> passed,
         failed_tests |-> Cardinality(DOMAIN logs) - passed]

\* No agent run, no report, no validation yet.
ReportIdle ==
    /\ current_step = ""
    /\ errors = FALSE
    /\ cancel_requested = FALSE
    /\ execution_logs = << >>
    /\ suite = << >>
    /\ test_results = None
    /\ validation = None

\* The process-wide objects as the modules construct them: no run started,
\* the reporter without a report, the executor used for the first time.
RunIds == 1..MaxThreads

\* No specification has been ingested.
IngestIdle ==
    /\ api_endpoints = {}
    /\ api_specs = << >>
    /\ ingested = None

ExtIdle ==
    /\ IngestIdle
    /\ selections = << >>
    /\ plannings = << >>
    /\ serialized = None
    /\ backoff = None
    /\ direct = None
    /\ marked = None

RunsIdle ==
    /\ state_manager = 0
    /\ run_pc = [r \in RunIds |-> "idle"]
    /\ run_state = [r \in RunIds |-> 0]
    /\ run_step = [r \in RunIds |-> 0]
    /\ dicts = [i \in 0..MaxThreads |-> << >>]
    /\ current_report = None
    /\ run_report = [r \in RunIds |-> None]
    /\ carried = << >>
    /\ mapping = << >>
    /\ exemplars = << >>

ServerIdle ==
    /\ RunsIdle
    /\ ExtIdle

\* ------------------------------------------------------------------- Init

Init ==
    /\ flow \in Flows
    /\ IF flow \in TableFlows
       THEN /\ tables = TableOrder
            /\ order = << >>
            /\ pc = "next_table"
       ELSE /\ tables = << >>
            /\ order \in PlansOver(IF flow = "test_suite" THEN Items ELSE EndpointItems,
                                   MaxPlan)
            /\ pc = "item"
    /\ table_name = ""
    /\ step = 1
    /\ testcase = NoCase
    /\ req = NoRequest
    /\ attempt = 0
    /\ last_error = None
    /\ result = NoResult
    /\ executions_logs = << >>
    \* run_positive_flow_node creates one current_test_state dict before its loop.
    /\ heap = IF flow = "positive_flow_node"
              THEN << [request |-> NoRequest, response |-> NoResult] >>
              ELSE << >>
    /\ outcomes = << >>
    /\ calls = << >>
    /\ executed = << >>
    /\ skipped = 0
    /\ snapshot = << >>
    /\ response_text = NoText
    /\ ResolverIdle
    /\ ReportIdle
    /\ ServerIdle

\* ---------------------------------------------------------------- actions

\* What the planning oracle's answer parses to: a list of items, or [] when
\* json.loads fails.
PlannerOutputs == PlansOver(Items, MaxPlan - Processed)

\* The head of the loop over endpoint tables, up to the parsed plan:
\* order_testcases_and_execute and run_all_possible_tests_node.
PlanOrder ==
    /\ pc = "next_table"
    /\ tables # << >>
    /\ \E plan \in PlannerOutputs :
          /\ order' = plan
          /\ table_name' = endpoint_tables[Head(tables)]
          /\ step' = 1
          \* run_all_possible_tests_node starts every table with executions_logs = {}
          /\ executions_logs' = IF flow = "all_tests_node" THEN << >> ELSE executions_logs
          /\ pc' = "item"
    /\ UNCHANGED <<flow, tables, testcase, req, attempt, last_error, result, heap,
                   outcomes, calls, executed, skipped, snapshot,
                   response_text>>
    /\ UNCHANGED resVars
    /\ UNCHANGED srvVars
    /\ UNCHANGED repVars

\* The plan of the current table is exhausted: on to the next table.
EndPlan ==
    /\ pc = "item"
    /\ step > Len(order)
    /\ flow \in TableFlows
    /\ tables' = Tail(tables)
    /\ pc' = "next_table"
    /\ UNCHANGED <<flow, table_name, order, step, testcase, req, attempt, last_error,
                   result, executions_logs, heap, outcomes, calls, executed, skipped,
                   snapshot,
                   response_text>>
    /\ UNCHANGED resVars
    /\ UNCHANGED srvVars
    /\ UNCHANGED repVars

\* The sequencer returns: every table, or the one plan, has been walked.
Finish ==
    /\ \/ pc = "next_table" /\ tables = << >>
       \/ pc = "item" /\ step > Len(order) /\ flow \notin TableFlows
    /\ pc' = "done"
    \* execute_test_suite returns its summary of the history
    /\ test_results' = IF flow = "test_suite"
                       THEN Some(SuiteResults(Deref(executions_logs, heap)))
                       ELSE test_results
    /\ UNCHANGED <<flow, tables, table_name, order, step, testcase, req, attempt,
                   last_error, result, executions_logs, heap, outcomes, calls,
                   executed, skipped, snapshot,
                   response_text>>
    /\ UNCHANGED resVars
    /\ UNCHANGED srvVars
    /\ UNCHANGED <<current_step, errors, cancel_requested, execution_logs, suite,
                   validation>>

\* An exception leaves the loop: the workflow nodes catch it, add an error and
\* return; order_testcases_and_execute and execute_test_suite let it propagate.
Abort == IF flow \in {"all_tests_node", "positive_flow_node"} THEN "failed" ELSE "raised"

\* One plan item, from its lookup to the built request: resolve the item,
\* skip it when no case is found, ask the oracle with the current history,
\* parse the answer and build the request.
StartItem(texts) ==
    /\ pc = "item"
    /\ step <= Len(order)
    /\ LET r == Resolve(flow, order[step], table_name) IN
       IF r.err = "KeyError"
       THEN /\ pc' = Abort
            /\ response_text' = NoText
            /\ UNCHANGED <<step, testcase, req, calls, skipped, snapshot>>
       ELSE IF r.case = None
       THEN /\ step' = step + 1
            /\ skipped' = skipped + 1
            /\ pc' = "item"
            /\ response_text' = NoText
            /\ UNCHANGED <<testcase, req, calls, snapshot>>
       ELSE \E text \in texts :
            LET c == r.case[1]
                enriched_fields == ParseEnrichment(text, LlmInput(flow, c))
            IN  /\ testcase' = c
                /\ snapshot' = Deref(executions_logs, heap)
                /\ response_text' = text
                /\ IF enriched_fields.ismap
                   THEN /\ req' = BuildRequest(enriched_fields, c)
                        /\ calls' = Append(calls, [table |-> table_name, step |-> step,
                                                   test_name |-> c.test_name])
                        /\ pc' = "call"
                   ELSE \* enriched_fields.get raises AttributeError
                        /\ pc' = Abort
                        /\ UNCHANGED <<req, calls>>
                /\ UNCHANGED <<step, skipped>>
    /\ attempt' = 0
    /\ last_error' = None
    /\ outcomes' = << >>
    /\ UNCHANGED <<flow, tables, table_name, order, result, executions_logs, heap,
                   executed>>
    /\ UNCHANGED resVars
    /\ UNCHANGED srvVars
    /\ UNCHANGED repVars

\* What session.request can meet for a request: a url that is no string is
\* refused by requests itself with MissingSchema, a RequestException.
Answers(r, net) ==
    IF r.url = NullUrl THEN {[exc |-> "RequestException", status |-> None]} ELSE net

\* APIClient.make_request: one pass of the retry loop.
SendRequest(net) ==
    /\ pc = "call"
    /\ flow # "order_testcases"
    /\ \E o \in Answers(req, net) :
          /\ outcomes' = Append(outcomes, o)
          /\ IF o.exc = "none"
             THEN /\ result' = APIResponse(o.status, None, TRUE)
                  /\ pc' = "record"
                  /\ UNCHANGED <<attempt, last_error>>
             ELSE /\ last_error' = Some(ErrorText(o.exc))
                  /\ IF IsRetryable(o) /\ ~RetriesExhausted(attempt)
                     THEN /\ attempt' = attempt + 1
                          /\ UNCHANGED <<result, pc>>
                     ELSE /\ result' = APIResponse(None, Some(ErrorText(o.exc)), FALSE)
                          /\ pc' = "record"
                          /\ UNCHANGED attempt
    /\ UNCHANGED <<flow, tables, table_name, order, step, testcase, req,
                   executions_logs, heap, calls, executed, skipped, snapshot,
                   response_text>>
    /\ UNCHANGED resVars
    /\ UNCHANGED srvVars
    /\ UNCHANGED repVars

\* sat_core.call_api: one requests.request, every RequestException caught.
CallApi(net) ==
    /\ pc = "call"
    /\ flow = "order_testcases"
    /\ \E o \in net :
          /\ outcomes' = Append(outcomes, o)
          /\ result' = CallApiResult(o)
    /\ pc' = "record"
    /\ UNCHANGED <<flow, tables, table_name, order, step, testcase, req, attempt,
                   last_error, executions_logs, heap, calls, executed, skipped,
                   snapshot,
                   response_text>>
    /\ UNCHANGED resVars
    /\ UNCHANGED srvVars
    /\ UNCHANGED repVars

\* The dict object a record is written to: run_positive_flow_node writes into
\* the one current_test_state it created before its loop, the other
\* sequencers create a dict per item.
RecordRef(f, h) == IF f = "positive_flow_node" THEN 1 ELSE Len(h) + 1

\* The client has returned: write {request, response} to the history under
\* the item's key, and go on to the next item.
Record ==
    /\ pc = "record"
    /\ LET ref == RecordRef(flow, heap)
           rec == [request |-> req, response |-> result]
           key == LogKey(flow, testcase, req)
       IN  /\ heap' = IF ref <= Len(heap) THEN [heap EXCEPT ![ref] = rec]
                      ELSE Append(heap, rec)
           /\ executions_logs' = (key :> ref) @@ executions_logs
           /\ executed' = Append(executed, [key |-> key, rec |-> rec,
                                             text |-> response_text.kind,
                                             case |-> testcase])
    /\ step' = step + 1
    /\ pc' = "item"
    \* the locals of the item are gone once it is recorded
    /\ attempt' = 0
    /\ last_error' = None
    /\ outcomes' = << >>
    /\ response_text' = NoText
    /\ UNCHANGED <<flow, tables, table_name, order, testcase, req, result, calls,
                   skipped, snapshot>>
    /\ UNCHANGED resVars
    /\ UNCHANGED srvVars
    /\ UNCHANGED repVars

\* A call of the HTTP client on its own, for any request.
ClientRequests == [url : OracleUrls, method : {"GET", "POST"}]

InitClient ==
    /\ flow \in Flows
    /\ pc = "call"
    /\ req \in ClientRequests
    /\ tables = << >>
    /\ order = << >>
    /\ table_name = ""
    /\ step = 1
    /\ testcase = NoCase
    /\ attempt = 0
    /\ last_error = None
    /\ result = NoResult
    /\ executions_logs = << >>
    /\ heap = << >>
    /\ outcomes = << >>
    /\ calls = << >>
    /\ executed = << >>
    /\ skipped = 0
    /\ snapshot = << >>
    /\ response_text = NoText
    /\ ResolverIdle
    /\ ReportIdle
    /\ ServerIdle

\* The client has returned to a caller that is no sequencer.
Returned ==
    /\ pc = "record"
    /\ pc' = "done"
    /\ UNCHANGED <<flow, tables, table_name, order, step, testcase, req, attempt,
                   last_error, result, executions_logs, heap, outcomes, calls,
                   executed, skipped, snapshot,
                   response_text>>
    /\ UNCHANGED resVars
    /\ UNCHANGED srvVars
    /\ UNCHANGED repVars

NextClient ==
    \/ SendRequest(AttemptOutcomes)
    \/ CallApi(AttemptOutcomes)
    \/ Returned

SpecClient == InitClient /\ [][NextClient]_vars

Next ==
    \/ PlanOrder
    \/ EndPlan
    \/ Finish
    \/ StartItem(OracleTexts)
    \/ SendRequest(RunOutcomes)
    \/ CallApi(RunOutcomes)
    \/ Record

Spec == Init /\ [][Next]_vars

\* ------------------------------------------------------------- extraction

HttpMethods == {"GET", "POST", "PUT", "DELETE", "PATCH", "HEAD", "OPTIONS"}

\* method.upper(), on the keys the documents have under a path
Upper(method) ==
    CASE method = "post" -> "POST"
      [] method = "get" -> "GET"
      [] method = "parameters" -> "PARAMETERS"
      [] OTHER -> method

\* The loop over content.items() of _resolve_request_body and of the OpenAPI 3
\* branch of _resolve_responses: content_obj["schema"] is ASSIGNED, and
\* content_obj is the document's own object.  An exception leaves the loop
\* with the entries before it already assigned.
RECURSIVE ResolveContent(_, _)
ResolveContent(doc, items) ==
    IF items = << >> THEN [out |-> << >>, ok |-> TRUE]
    ELSE LET e == Head(items) IN
         IF HasKey(e.val, "schema")
         THEN The({IF ~r.ok THEN [out |-> items, ok |-> FALSE]
                   ELSE The({[out |-> <<Entry(e.key, Put(e.val, "schema", r.out))>>
                                          \o t.out,
                              ok |-> t.ok] :
                             t \in {ResolveContent(doc, Tail(items))}}) :
                   r \in {ResolveSchema(doc, Get(e.val, "schema"))}})
         ELSE The({[out |-> <<e>> \o t.out, ok |-> t.ok] :
                   t \in {ResolveContent(doc, Tail(items))}})

\* SwaggerParser._resolve_request_body.  body is what it returns, stored is the
\* request body the document holds afterwards: resolved_body is a shallow
\* copy, so the two share the content that the loop assigned into.
resolve_request_body(doc, request_body) ==
    IF request_body = None \/ request_body[1].items = << >>
    THEN [body |-> None, stored |-> request_body, ok |-> TRUE]
    ELSE LET rb == request_body[1] IN
         IF ~HasKey(rb, "content")
         THEN [body |-> Some(rb), stored |-> request_body, ok |-> TRUE]
         ELSE The({[body |-> Some(Put(rb, "content", Dict(r.out))),
                    stored |-> Some(Put(rb, "content", Dict(r.out))),
                    ok |-> r.ok] :
                   r \in {ResolveContent(doc, Get(rb, "content").items)}})

\* The loop over responses.items() of _resolve_responses: the Swagger 2 branch
\* assigns into the copy, the OpenAPI 3 branch into the document's content.
RECURSIVE ResolveResponses(_, _)
ResolveResponses(doc, items) ==
    IF items = << >> THEN [out |-> << >>, stored |-> << >>, ok |-> TRUE]
    ELSE LET e == Head(items) IN
         The({IF HasKey(e.val, "schema")
              THEN The({IF ~r.ok THEN [out |-> items, stored |-> items, ok |-> FALSE]
                        ELSE [out |-> <<Entry(e.key, Put(e.val, "schema", r.out))>>
                                          \o t.out,
                              stored |-> <<e>> \o t.stored, ok |-> t.ok] :
                        r \in {ResolveSchema(doc, Get(e.val, "schema"))}})
              ELSE IF HasKey(e.val, "content")
              THEN The({LET after == Entry(e.key, Put(e.val, "content", Dict(r.out)))
                        IN  IF ~r.ok
                            THEN [out |-> <<after>> \o Tail(items),
                                  stored |-> <<after>> \o Tail(items), ok |-> FALSE]
                            ELSE [out |-> <<after>> \o t.out,
                                  stored |-> <<after>> \o t.stored, ok |-> t.ok] :
                        r \in {ResolveContent(doc, Get(e.val, "content").items)}})
              ELSE [out |-> <<e>> \o t.out, stored |-> <<e>> \o t.stored,
                    ok |-> t.ok] :
              t \in {ResolveResponses(doc, Tail(items))}})

\* SwaggerParser._resolve_responses: on an exception the responses themselves
\* are returned.
resolve_responses(doc, responses) ==
    The({[out |-> Dict(IF r.ok THEN r.out ELSE r.stored), stored |-> Dict(r.stored),
          ok |-> r.ok] :
         r \in {ResolveResponses(doc, responses.items)}})

\* SwaggerParser._resolve_parameters: every parameter is copied, the document
\* is left alone; on an exception the parameters themselves are returned.
RECURSIVE ResolveParameters(_, _)
ResolveParameters(doc, items) ==
    IF items = << >> THEN [out |-> << >>, ok |-> TRUE]
    ELSE LET e == Head(items) IN
         The({IF HasKey(e.val, "schema")
              THEN The({[out |-> <<Entry(e.key, Put(e.val, "schema", r.out))>>
                                     \o t.out,
                         ok |-> r.ok /\ t.ok] :
                        r \in {ResolveSchema(doc, Get(e.val, "schema"))}})
              ELSE [out |-> <<e>> \o t.out, ok |-> t.ok] :
              t \in {ResolveParameters(doc, Tail(items))}})

resolve_parameters(doc, parameters) ==
    The({[out |-> IF r.ok THEN List(r.out) ELSE parameters, ok |-> r.ok] :
         r \in {ResolveParameters(doc, parameters.items)}})

\* details.get(key), details.get(key, default)
GetOption(d, key) == IF HasKey(d, key) THEN Some(Get(d, key)) ELSE None
GetOr(d, key, default) == IF HasKey(d, key) THEN Get(d, key) ELSE default

\* SwaggerParser._extract_single_endpoint: the endpoint (its resolved fields;
\* the others are copied from details) and details as the document holds them
\* afterwards.
extract_single_endpoint(doc, path, method, details) ==
    The({LET d1 == IF HasKey(details, "requestBody")
                   THEN Put(details, "requestBody", rb.stored[1]) ELSE details
             d2 == IF HasKey(details, "responses")
                   THEN Put(d1, "responses", rs.stored) ELSE d1
         IN  [endpoint |-> [path |-> path, method |-> Upper(method),
                            parameters |-> ps.out, request_body |-> rb.body,
                            responses |-> rs.out],
              details |-> d2,
              ok |-> rb.ok /\ rs.ok /\ ps.ok] :
         rb \in {resolve_request_body(doc, GetOption(details, "requestBody"))},
         rs \in {resolve_responses(doc, GetOr(details, "responses", Dict(<< >>)))},
         ps \in {resolve_parameters(doc, GetOr(details, "parameters", List(<< >>)))}})

\* The loop over methods.items() of extract_endpoints.
RECURSIVE ExtractMethods(_, _, _)
ExtractMethods(doc, path, items) ==
    IF items = << >> THEN [endpoints |-> << >>, stored |-> << >>, ok |-> TRUE]
    ELSE LET e == Head(items) IN
         The({IF Upper(e.key) \notin HttpMethods \/ e.val.k # "dict"
              THEN \* a key that is no HTTP method is skipped; details that are no
                   \* dict make details.get raise, which _extract_single_endpoint
                   \* catches: it returns None and the loop goes on
                   [endpoints |-> t.endpoints, stored |-> <<e>> \o t.stored,
                    ok |-> t.ok]
              ELSE The({[endpoints |-> <<r.endpoint>> \o t.endpoints,
                         stored |-> <<Entry(e.key, r.details)>> \o t.stored,
                         ok |-> r.ok /\ t.ok] :
                        r \in {extract_single_endpoint(doc, path, e.key, e.val)}}) :
              t \in {ExtractMethods(doc, path, Tail(items))}})

\* The loop over paths.items() of extract_endpoints.
RECURSIVE ExtractPaths(_, _)
ExtractPaths(doc, items) ==
    IF items = << >> THEN [endpoints |-> << >>, stored |-> << >>, ok |-> TRUE]
    ELSE LET e == Head(items) IN
         The({IF e.val.k # "dict"
              THEN [endpoints |-> t.endpoints, stored |-> <<e>> \o t.stored,
                    ok |-> t.ok]
              ELSE The({[endpoints |-> r.endpoints \o t.endpoints,
                         stored |-> <<Entry(e.key, Dict(r.stored))>> \o t.stored,
                         ok |-> r.ok /\ t.ok] :
                        r \in {ExtractMethods(doc, e.key, e.val.items)}}) :
              t \in {ExtractPaths(doc, Tail(items))}})

\* SwaggerParser.extract_endpoints(swagger_data): the endpoint list, and the
\* document the caller is left with.  Pointers lead into "definitions", which
\* the extraction does not assign to, so every operation resolves against the
\* same definitions.
extract_endpoints(doc) ==
    IF ~HasKey(doc, "paths") THEN [endpoints |-> << >>, doc |-> doc, ok |-> TRUE]
    ELSE The({[endpoints |-> r.endpoints, doc |-> Put(doc, "paths", Dict(r.stored)),
               ok |-> r.ok] :
              r \in {ExtractPaths(doc, Get(doc, "paths").items)}})

\* ------------------------------------------------- sat_core.parse_swagger

\* resolve_ref: node.get(p) along the parts; a missing key gives None, a node
\* that is no dict has no get and raises AttributeError.
RECURSIVE WalkGet(_, _)
WalkGet(node, parts) ==
    IF parts = << >> THEN [raised |-> FALSE, node |-> Some(node)]
    ELSE IF node.k # "dict" THEN [raised |-> TRUE, node |-> None]
    ELSE IF ~HasKey(node, Head(parts)) THEN [raised |-> FALSE, node |-> None]
    ELSE WalkGet(Get(node, Head(parts)), Tail(parts))

resolve_ref(ref, swagger) ==
    IF ref = << >> \/ Head(ref) # "#" THEN [raised |-> FALSE, node |-> None]
    ELSE WalkGet(swagger, Tail(ref))

\* resolve_schema: ok is FALSE when an exception left the call.
RECURSIVE resolve_schema(_, _, _, _)
RECURSIVE ResolveItems(_, _, _, _)
ResolveItems(items, swagger, seen, depth) ==
    IF items = << >> THEN [out |-> << >>, seen |-> seen, ok |-> TRUE]
    ELSE The({IF ~h.ok THEN [out |-> items, seen |-> h.seen, ok |-> FALSE]
              ELSE The({[out |-> <<Entry(Head(items).key, h.out)>> \o t.out,
                         seen |-> t.seen, ok |-> t.ok] :
                        t \in {ResolveItems(Tail(items), swagger, h.seen, depth)}}) :
              h \in {resolve_schema(Head(items).val, swagger, seen, depth)}})

resolve_schema(schema, swagger, seen, depth) ==
    IF depth = 0 THEN [out |-> schema, seen |-> seen, ok |-> FALSE]
    ELSE IF schema.k = "dict" /\ HasKey(schema, "$ref")
    THEN The({IF ref \in seen
              THEN [out |-> Ref(ref), seen |-> seen, ok |-> TRUE]
              ELSE The({IF resolved.raised
                        THEN [out |-> schema, seen |-> seen \cup {ref}, ok |-> FALSE]
                        ELSE IF resolved.node = None
                        THEN [out |-> schema, seen |-> seen \cup {ref}, ok |-> TRUE]
                        ELSE resolve_schema(resolved.node[1], swagger,
                                            seen \cup {ref}, depth - 1) :
                        resolved \in {resolve_ref(ref, swagger)}}) :
              ref \in {Get(schema, "$ref").s}})
    ELSE IF schema.k \in {"dict", "list"}
    THEN The({[out |-> [schema EXCEPT !.items = r.out], seen |-> r.seen, ok |-> r.ok] :
              r \in {ResolveItems(schema.items, swagger, seen, depth - 1)}})
    ELSE [out |-> schema, seen |-> seen, ok |-> TRUE]

\* The loops of parse_swagger that assign obj["schema"] = resolve_schema(...)
\* for every obj of a dict or list that has a schema.
RECURSIVE AssignSchemas(_, _)
AssignSchemas(items, swagger) ==
    IF items = << >> THEN [out |-> << >>, ok |-> TRUE]
    ELSE LET e == Head(items) IN
         IF e.val.k = "dict" /\ HasKey(e.val, "schema")
         THEN The({IF ~r.ok THEN [out |-> items, ok |-> FALSE]
                   ELSE The({[out |-> <<Entry(e.key, Put(e.val, "schema", r.out))>>
                                          \o t.out,
                              ok |-> t.ok] :
                             t \in {AssignSchemas(Tail(items), swagger)}}) :
                   r \in {resolve_schema(Get(e.val, "schema"), swagger, {}, MaxDepth)}})
         ELSE The({[out |-> <<e>> \o t.out, ok |-> t.ok] :
                   t \in {AssignSchemas(Tail(items), swagger)}})

\* The loop over responses.items(): a response with a schema is resolved in
\* place, one with a content has the schemas of its media types resolved.
RECURSIVE AssignResponses(_, _)
AssignResponses(items, swagger) ==
    IF items = << >> THEN [out |-> << >>, ok |-> TRUE]
    ELSE LET e == Head(items) IN
         The({IF ~h.ok THEN [out |-> items, ok |-> FALSE]
              ELSE The({[out |-> h.out \o t.out, ok |-> t.ok] :
                        t \in {AssignResponses(Tail(items), swagger)}}) :
              h \in {IF HasKey(e.val, "schema") THEN AssignSchemas(<<e>>, swagger)
                     ELSE IF HasKey(e.val, "content")
                     THEN The({[out |-> <<Entry(e.key, Put(e.val, "content", Dict(c.out)))>>,
                                ok |-> c.ok] :
                               c \in {AssignSchemas(Get(e.val, "content").items, swagger)}})
                     ELSE [out |-> <<e>>, ok |-> TRUE]}})

\* The body of parse_swagger's inner loop for one method key: details.get
\* raises AttributeError when details is no dict.
ParseOperation(path, method, details, swagger) ==
    IF details.k # "dict" THEN [endpoint |-> None, ok |-> FALSE]
    ELSE The({[endpoint |->
                  Some([path |-> path, method |-> method,
                        parameters |-> IF HasKey(details, "parameters")
                                       THEN List(ps.out) ELSE List(<< >>),
                        request_body |-> IF HasKey(details, "requestBody")
                                         THEN Some(Put(Get(details, "requestBody"),
                                                       "content", Dict(rb.out)))
                                         ELSE None,
                        responses |-> Dict(rs.out)]),
               ok |-> rb.ok /\ rs.ok /\ ps.ok] :
              rb \in {IF HasKey(details, "requestBody")
                      THEN AssignSchemas(
                               GetOr(Get(details, "requestBody"), "content",
                                     Dict(<< >>)).items, swagger)
                      ELSE [out |-> << >>, ok |-> TRUE]},
              rs \in {AssignResponses(GetOr(details, "responses", Dict(<< >>)).items,
                                      swagger)},
              ps \in {AssignSchemas(GetOr(details, "parameters", List(<< >>)).items,
                                    swagger)}})

\* for method, details in methods.items(): no key is skipped and nothing is
\* caught, so the first exception leaves parse_swagger.
RECURSIVE ParseMethods(_, _, _)
ParseMethods(path, items, swagger) ==
    IF items = << >> THEN [endpoints |-> << >>, ok |-> TRUE]
    ELSE The({IF ~h.ok THEN [endpoints |-> << >>, ok |-> FALSE]
              ELSE The({[endpoints |-> <<h.endpoint[1]>> \o t.endpoints, ok |-> t.ok] :
                        t \in {ParseMethods(path, Tail(items), swagger)}}) :
              h \in {ParseOperation(path, Head(items).key, Head(items).val, swagger)}})

\* for path, methods in paths.items()
RECURSIVE ParsePaths(_, _)
ParsePaths(items, swagger) ==
    IF items = << >> THEN [endpoints |-> << >>, ok |-> TRUE]
    ELSE IF Head(items).val.k # "dict" THEN [endpoints |-> << >>, ok |-> FALSE]
    ELSE The({IF ~h.ok THEN [endpoints |-> << >>, ok |-> FALSE]
              ELSE The({[endpoints |-> h.endpoints \o t.endpoints, ok |-> t.ok] :
                        t \in {ParsePaths(Tail(items), swagger)}}) :
              h \in {ParseMethods(Head(items).key, Head(items).val.items, swagger)}})

\* sat_core.parse_swagger on the document the file holds: the endpoint list,
\* or None when an exception left the call.
parse_swagger(swagger) ==
    The({IF r.ok THEN Some(r.endpoints) ELSE None :
         r \in {ParsePaths(GetOr(swagger, "paths", Dict(<< >>)).items, swagger)}})

\* The sequencer and the client at rest.
SeqIdle ==
    /\ flow = "test_suite"
    /\ pc = "done"
    /\ req = NoRequest
    /\ tables = << >>
    /\ order = << >>
    /\ table_name = ""
    /\ step = 1
    /\ testcase = NoCase
    /\ attempt = 0
    /\ last_error = None
    /\ result = NoResult
    /\ executions_logs = << >>
    /\ heap = << >>
    /\ outcomes = << >>
    /\ calls = << >>
    /\ executed = << >>
    /\ skipped = 0
    /\ snapshot = << >>
    /\ response_text = NoText

\* A specification file has been loaded.
InitResolver ==
    /\ SeqIdle
    /\ swagger_file \in Documents
    /\ swagger_data = swagger_file
    /\ extracted = << >>
    /\ overflow = FALSE
    /\ parsed = << >>
    /\ ReportIdle
    /\ ServerIdle

\* SwaggerParser.load_swagger_file: the file is read again.
LoadSwaggerFile ==
    /\ Len(extracted) < MaxRuns
    /\ swagger_data' = swagger_file
    /\ UNCHANGED <<swagger_file, extracted, overflow, parsed>>
    /\ UNCHANGED seqVars
    /\ UNCHANGED srvVars
    /\ UNCHANGED repVars

\* SwaggerParser.extract_endpoints on the loaded document.
ExtractEndpoints ==
    /\ Len(extracted) < MaxRuns
    /\ \E r \in {extract_endpoints(swagger_data)} :
          /\ swagger_data' = r.doc
          /\ extracted' = Append(extracted,
                                 [doc |-> swagger_data, endpoints |-> r.endpoints])
          /\ overflow' = (overflow \/ ~r.ok)
    /\ UNCHANGED <<swagger_file, parsed>>
    /\ UNCHANGED seqVars
    /\ UNCHANGED srvVars
    /\ UNCHANGED repVars

NextResolver ==
    \/ LoadSwaggerFile
    \/ ExtractEndpoints

SpecResolver == InitResolver /\ [][NextResolver]_vars

\* ------------------------------------------------ documents of operations

\* A reference to a definition no document has, and one that leads through a
\* string: "#/definitions/A/type/x", where A is {"type": "string"}.
MissingRef == Ref(Pointer("Z"))
ThroughString == Ref(<<"#", "definitions", "A", "type", "x">>)

\* The details of one operation, with one Swagger 2 response.
Details(schema) ==
    Dict(<<Entry("responses", Dict(<<Entry("200", Dict(<<Entry("schema", schema)>>))>>))>>)

\* The details of one operation, with one OpenAPI 3 response.
Details3(schema) ==
    Dict(<<Entry("responses", Dict(<<Entry("200", Dict(<<Entry("content", Dict(<<
              Entry("application/json", Dict(<<Entry("schema", schema)>>))>>))>>))>>))>>)

\* What a document may hold under a method key: nothing, an operation whose
\* response is a string, a reference to A, or a reference that cannot be
\* followed, or a text where the operation should be.
Absent == Str(<< >>)
MethodValues ==
    {Absent, Str(<<"todo">>), Details3(Ref(Pointer("A")))}
    \cup {Details(x) : x \in {Str(<<"string">>), Ref(Pointer("A")), MissingRef,
                               ThroughString}}

\* The entries of a path item, without the absent ones.
PathItem(get, GET, post) ==
    Dict(SelectSeq(<<Entry("get", get), Entry("GET", GET), Entry("post", post)>>,
                   LAMBDA e : e.val # Absent))

OperationDocument(get, GET, post) ==
    Dict(<<Entry("paths", Dict(<<Entry("/p", PathItem(get, GET, post))>>)),
           Entry("definitions",
                 Dict(<<Entry("A", Dict(<<Entry("type", Str(<<"string">>))>>))>>))>>)

OperationDocuments ==
    {OperationDocument(get, GET, post) :
        get \in MethodValues, GET \in {Absent, Details(Str(<<"string">>))},
        post \in MethodValues}

\* A specification file with operations has been written.
InitOperations ==
    /\ SeqIdle
    /\ swagger_file \in OperationDocuments
    /\ swagger_data = swagger_file
    /\ extracted = << >>
    /\ overflow = FALSE
    /\ parsed = << >>
    /\ ReportIdle
    /\ ServerIdle

\* sat_core.parse_swagger: the file is loaded and its operations extracted.
ParseSwagger ==
    /\ Len(parsed) < MaxRuns
    /\ parsed' = Append(parsed, [doc |-> swagger_file,
                                 endpoints |-> parse_swagger(swagger_file)])
    /\ UNCHANGED <<swagger_file, swagger_data, extracted, overflow>>
    /\ UNCHANGED seqVars
    /\ UNCHANGED srvVars
    /\ UNCHANGED repVars

NextOperations ==
    \/ LoadSwaggerFile
    \/ ExtractEndpoints
    \/ ParseSwagger

SpecOperations == InitOperations /\ [][NextOperations]_vars

\* ------------------------------------------------------ reporting sessions

\* The result dicts a caller may hand to validate_response.
ValidatorStatuses == Statuses \cup {201}
ValidatorResults ==
    [status_code : {None} \cup {Some(c) : c \in ValidatorStatuses},
     data : {None} \cup {Some(b) : b \in Bodies}]

\* The responses behind the results of a reporting session: a 2xx, a 5xx and
\* an exhausted timeout.
SessionResponses ==
    {APIResponse(Some(200), None, TRUE), APIResponse(Some(500), None, TRUE),
     APIResponse(None, Some(ErrorText("Timeout")), FALSE)}

\* A reporter or a validator used on its own; the two share no state, so a
\* session uses one of them.
InitReporting ==
    /\ SeqIdle
    /\ ResolverIdle
    /\ ReportIdle
    /\ ServerIdle

\* TestSuiteReport.add_test_result
AddTestResult ==
    /\ current_step = ""
    /\ validation = None
    /\ test_results = None
    /\ Len(suite) < MaxResults
    /\ \E response \in SessionResponses :
          suite' = Append(suite, TestResult("t", response))
    /\ UNCHANGED <<current_step, errors, cancel_requested, execution_logs,
                   test_results, validation>>
    /\ UNCHANGED <<seqVars, resVars, srvVars>>

\* TestSuiteReport.finalize
Finalize ==
    /\ current_step = ""
    /\ validation = None
    /\ test_results = None
    /\ test_results' = Some(calculate_summary(suite))
    /\ UNCHANGED <<current_step, errors, cancel_requested, execution_logs, suite,
                   validation>>
    /\ UNCHANGED <<seqVars, resVars, srvVars>>

\* One call of validate_response.
ValidateResponse ==
    /\ current_step = ""
    /\ suite = << >>
    /\ test_results = None
    /\ \E res \in ValidatorResults, expected_status \in ValidatorStatuses,
          expected_schema \in ExpectedSchemas :
          validation' = Some([result |-> res,
                              expected_status |-> expected_status,
                              expected_schema |-> expected_schema,
                              return |-> validate_response(res, expected_status,
                                                           expected_schema)])
    /\ UNCHANGED <<current_step, errors, cancel_requested, execution_logs, suite,
                   test_results>>
    /\ UNCHANGED <<seqVars, resVars, srvVars>>

NextReporting ==
    \/ AddTestResult
    \/ Finalize
    \/ ValidateResponse

SpecReporting == InitReporting /\ [][NextReporting]_vars

\* -------------------------------------------------------------- the agent

\* The nodes of the workflow graph, in the order of its edges.
Nodes ==
    << "initialize_database", "parse_swagger_file", "store_endpoints",
       "fetch_endpoints", "generate_test_cases", "persist_test_cases",
       "plan_execution_order", "run_positive_flow", "run_all_possible_tests",
       "generate_report", "END" >>
NextNode(n) == Nodes[(CHOOSE i \in 1..Len(Nodes) : Nodes[i] = n) + 1]

\* The nodes before the test cases are stored.
PreparingNodes == {Nodes[i] : i \in 1..5}

\* APITestingAgent.run on the initial state: no endpoint tables, an empty
\* execution order, no logs, no results, no errors.
InitAgent ==
    /\ current_step = Nodes[1]
    /\ errors = FALSE
    /\ cancel_requested = FALSE
    /\ execution_logs = << >>
    /\ suite = << >>
    /\ test_results = None
    /\ validation = None
    /\ flow = "positive_flow_node"
    /\ pc = "idle"
    /\ tables = << >>
    /\ order = << >>
    /\ table_name = ""
    /\ step = 1
    /\ testcase = NoCase
    /\ req = NoRequest
    /\ attempt = 0
    /\ last_error = None
    /\ result = NoResult
    /\ executions_logs = << >>
    /\ heap = << >>
    /\ outcomes = << >>
    /\ calls = << >>
    /\ executed = << >>
    /\ skipped = 0
    /\ snapshot = << >>
    /\ response_text = NoText
    /\ ResolverIdle
    /\ ServerIdle

\* A node before the test cases are stored: it returns the state, with an
\* error added when its body raised.
Prepare ==
    /\ current_step \in PreparingNodes
    /\ \E ok \in BOOLEAN : errors' = (errors \/ ~ok)
    /\ current_step' = NextNode(current_step)
    /\ UNCHANGED <<cancel_requested, execution_logs, suite, test_results, validation>>
    /\ UNCHANGED <<seqVars, resVars, srvVars>>

\* persist_test_cases_node: state["endpoint_tables"] is set unless the node
\* raised; it is empty when a node before it left no endpoints or cases.
PersistTestCases ==
    /\ current_step = "persist_test_cases"
    /\ \E ok \in BOOLEAN :
          /\ errors' = (errors \/ ~ok)
          /\ tables' = IF ok /\ ~errors THEN TableOrder ELSE << >>
    /\ current_step' = NextNode(current_step)
    /\ UNCHANGED <<cancel_requested, execution_logs, suite, test_results, validation>>
    /\ UNCHANGED <<flow, pc, table_name, order, step, testcase, req, attempt,
                   last_error, result, executions_logs, heap, outcomes, calls,
                   executed, skipped, snapshot, response_text>>
    /\ UNCHANGED resVars
    /\ UNCHANGED srvVars

\* plan_execution_order_node, up to the head of run_positive_flow_node's loop:
\* the planning oracle's list of endpoint ids becomes state["execution_order"]
\* unless the node raised, and the positive flow creates its
\* current_test_state.
PlanExecutionOrder ==
    /\ current_step = "plan_execution_order"
    /\ \E ok \in BOOLEAN :
          /\ errors' = (errors \/ ~ok)
          /\ order' \in IF ok /\ tables # << >>
                        THEN PlansOver(EndpointItems, MaxPlan) ELSE {<< >>}
    /\ current_step' = NextNode(current_step)
    /\ heap' = << [request |-> NoRequest, response |-> NoResult] >>
    /\ step' = 1
    /\ pc' = "item"
    /\ UNCHANGED <<cancel_requested, execution_logs, suite, test_results, validation>>
    /\ UNCHANGED <<flow, tables, table_name, testcase, req, attempt, last_error,
                   result, executions_logs, outcomes, calls, executed, skipped,
                   snapshot, response_text>>
    /\ UNCHANGED resVars
    /\ UNCHANGED srvVars

\* run_positive_flow_node returns, with an error added when its loop raised,
\* and run_all_possible_tests_node starts on the stored endpoint tables with
\* a history of its own.
RunAllPossibleTests ==
    /\ current_step = "run_positive_flow"
    /\ \/ pc = "failed"
       \/ pc = "item" /\ step > Len(order)
    /\ errors' = (errors \/ pc = "failed")
    /\ execution_logs' = executions_logs
    /\ executions_logs' = << >>
    /\ current_step' = NextNode(current_step)
    /\ flow' = "all_tests_node"
    /\ order' = << >>
    /\ step' = 1
    /\ pc' = "next_table"
    /\ response_text' = NoText
    /\ UNCHANGED <<cancel_requested, suite, test_results, validation>>
    /\ UNCHANGED <<tables, table_name, testcase, req, attempt, last_error, result,
                   heap, outcomes, calls, executed, skipped, snapshot>>
    /\ UNCHANGED resVars
    /\ UNCHANGED srvVars

\* The keys of the records written, in the order a dict keeps them: by first
\* insertion.
RECURSIVE FirstKeys(_, _)
FirstKeys(recs, seen) ==
    IF recs = << >> THEN << >>
    ELSE IF Head(recs).key \in seen THEN FirstKeys(Tail(recs), seen)
    ELSE << Head(recs).key >> \o FirstKeys(Tail(recs), seen \cup {Head(recs).key})

\* The keys add_execution_logs gets through: _extract_test_type calls
\* test_name.lower(), which raises for a key that is no string.
RECURSIVE StringKeys(_)
StringKeys(keys) ==
    IF keys = << >> \/ Head(keys) = NullUrl THEN << >>
    ELSE << Head(keys) >> \o StringKeys(Tail(keys))

\* run_all_possible_tests_node returns, with an error added when it raised,
\* and generate_report_node runs: a result per entry of
\* state["execution_logs"], the summary, the report files, and
\* state["test_results"]; when any of it raises, an error is added instead
\* and state["test_results"] stays None. The graph then ends the run.
GenerateReport ==
    /\ current_step = "run_all_possible_tests"
    /\ \/ pc = "failed"
       \/ pc = "next_table" /\ tables = << >>
    /\ LET logs == Deref(execution_logs, heap)
           keys == SelectSeq(FirstKeys(executed, {}),
                             LAMBDA k : k \in DOMAIN execution_logs)
           results == add_execution_logs(StringKeys(keys), logs)
           raised == StringKeys(keys) # keys
       IN  /\ suite' = results
           /\ test_results' = IF raised THEN None
                              ELSE Some(calculate_summary(results))
           /\ errors' = (errors \/ pc = "failed" \/ raised)
    /\ current_step' = "END"
    /\ pc' = "done"
    /\ response_text' = NoText
    /\ UNCHANGED <<cancel_requested, execution_logs, validation>>
    /\ UNCHANGED <<flow, tables, table_name, order, step, testcase, req, attempt,
                   last_error, result, executions_logs, heap, outcomes, calls,
                   executed, skipped, snapshot>>
    /\ UNCHANGED resVars
    /\ UNCHANGED srvVars

\* POST /runs/{run_id}/cancel while the run's thread is at work.
CancelRun ==
    /\ current_step \notin {"", "END"}
    /\ ~cancel_requested
    /\ cancel_requested' = TRUE
    /\ UNCHANGED <<current_step, errors, execution_logs, suite, test_results,
                   validation>>
    /\ UNCHANGED <<seqVars, resVars, srvVars>>

\* The steps of the run's thread.
AgentStep ==
    \/ Prepare
    \/ PersistTestCases
    \/ PlanExecutionOrder
    \/ StartItem(AgentTexts)
    \/ SendRequest(RunOutcomes)
    \/ Record
    \/ RunAllPossibleTests
    \/ PlanOrder
    \/ EndPlan
    \/ GenerateReport

NextAgent ==
    \/ AgentStep
    \/ CancelRun

\* The run's thread is never suspended for good: each call it waits on returns
\* or times out.
SpecAgent == InitAgent /\ [][NextAgent]_vars /\ WF_vars(AgentStep)

\* ------------------------------------------------------- concurrent runs

\* Runs started with POST /runs on one server process.  Each is a background
\* thread that calls the one global agent; the agent, its StateManager and
\* the TestReporter are module-level singletons.  A state is known here by
\* its execution_logs dict: dict r is the one create_initial_state made for
\* run r, dict 0 the one of the StateManager's own first state.

\* The urls a positive flow records under, in plan order: every run tests
\* the same API.
PositiveKeys == << "/a", "/b" >>

\* What get_state() hands back: a shallow copy of the manager's state, whose
\* execution_logs is the manager's dict itself.  The graph overwrites the
\* run's state with the dict a node returns.
NodeReturn(r) == [run_state EXCEPT ![r] = state_manager]

\* start_run, _run_agent and APITestingAgent.run up to the graph's start:
\* a fresh initial state, which the global StateManager is reset to.
StartRun(r) ==
    /\ run_pc[r] = "idle"
    /\ dicts' = [dicts EXCEPT ![r] = << >>]
    /\ state_manager' = r
    /\ run_state' = [run_state EXCEPT ![r] = r]
    /\ run_pc' = [run_pc EXCEPT ![r] = "prepare"]
    /\ UNCHANGED <<run_step, current_report, run_report, carried>>
    /\ UNCHANGED <<seqVars, resVars, repVars, selVars, extVars>>

\* The nodes before the positive flow, each ending in
\* `return self.state_manager.get_state()`.
PrepareReturn(r) ==
    /\ run_pc[r] = "prepare"
    /\ run_state' = NodeReturn(r)
    /\ run_pc' = [run_pc EXCEPT ![r] = "positive_flow"]
    /\ UNCHANGED <<state_manager, run_step, dicts, current_report, run_report, carried>>
    /\ UNCHANGED <<seqVars, resVars, repVars, selVars, extVars>>

\* run_positive_flow_node, one plan item: the record is written to
\* state["execution_logs"] under the request's url.
PositiveFlowItem(r) ==
    /\ run_pc[r] = "positive_flow"
    /\ run_step[r] < Len(PositiveKeys)
    /\ dicts' = [dicts EXCEPT ![run_state[r]] = (PositiveKeys[run_step[r] + 1] :> r) @@ @]
    /\ run_step' = [run_step EXCEPT ![r] = @ + 1]
    /\ UNCHANGED <<state_manager, run_pc, run_state, current_report, run_report, carried>>
    /\ UNCHANGED <<seqVars, resVars, repVars, selVars, extVars>>

\* run_positive_flow_node and run_all_possible_tests_node return.
PositiveFlowReturn(r) ==
    /\ run_pc[r] = "positive_flow"
    /\ run_step[r] = Len(PositiveKeys)
    /\ run_state' = NodeReturn(r)
    /\ run_pc' = [run_pc EXCEPT ![r] = "report"]
    /\ UNCHANGED <<state_manager, run_step, dicts, current_report, run_report, carried>>
    /\ UNCHANGED <<seqVars, resVars, repVars, selVars, extVars>>

\* generate_report_node: test_reporter.start_test_suite
StartTestSuite(r) ==
    /\ run_pc[r] = "report"
    /\ current_report' = Some(<< >>)
    /\ run_pc' = [run_pc EXCEPT ![r] = "report_started"]
    /\ UNCHANGED <<state_manager, run_state, run_step, dicts, run_report, carried>>
    /\ UNCHANGED <<seqVars, resVars, repVars, selVars, extVars>>

\* The results a history gives, in the order of its keys.
ResultsOf(d) ==
    LET keys == SelectSeq(PositiveKeys, LAMBDA k : k \in DOMAIN d)
    IN  [i \in 1..Len(keys) |-> [key |-> keys[i], by |-> d[keys[i]]]]

\* generate_report_node: test_reporter.add_execution_logs(state["execution_logs"])
AddExecutionLogs(r) ==
    /\ run_pc[r] = "report_started"
    /\ current_report' = IF current_report = None THEN None
                         ELSE Some(current_report[1] \o ResultsOf(dicts[run_state[r]]))
    /\ run_pc' = [run_pc EXCEPT ![r] = "report_added"]
    /\ UNCHANGED <<state_manager, run_state, run_step, dicts, run_report, carried>>
    /\ UNCHANGED <<seqVars, resVars, repVars, selVars, extVars>>

\* generate_report_node: test_reporter.finalize_report, the report files and
\* the node's return; APITestingAgent.run then keeps the final state.
FinalizeReport(r) ==
    /\ run_pc[r] = "report_added"
    /\ run_report' = [run_report EXCEPT ![r] = current_report]
    /\ run_state' = NodeReturn(r)
    /\ run_pc' = [run_pc EXCEPT ![r] = "done"]
    /\ UNCHANGED <<state_manager, run_step, dicts, current_report, carried>>
    /\ UNCHANGED <<seqVars, resVars, repVars, selVars, extVars>>

NextRuns ==
    \E r \in RunIds :
        \/ StartRun(r)
        \/ PrepareReturn(r)
        \/ PositiveFlowItem(r)
        \/ PositiveFlowReturn(r)
        \/ StartTestSuite(r)
        \/ AddExecutionLogs(r)
        \/ FinalizeReport(r)

SpecRuns == InitReporting /\ [][NextRuns]_vars

\* --------------------------------------------- one executor, several runs

\* An oracle and a target that behave: the answer is a JSON object without
\* a url, the target answers 200.
SuiteTexts == {[kind |-> "map", url |-> None]}
SuiteOutcomes == {[exc |-> "none", status |-> Some(200)]}

\* A further execute_test_suite call on the executor that has returned: a new
\* results dict and loop, and self.execution_logs as the last call left it.
ExecuteTestSuite ==
    /\ flow = "test_suite"
    /\ pc = "done"
    /\ Len(carried) < MaxRuns - 1
    /\ order' \in PlansOver(Items, MaxPlan - 1)
    /\ step' = 1
    /\ pc' = "item"
    /\ test_results' = None
    /\ carried' = Append(carried, Deref(executions_logs, heap))
    /\ calls' = << >>
    /\ executed' = << >>
    /\ skipped' = 0
    /\ snapshot' = << >>
    /\ UNCHANGED <<flow, tables, table_name, testcase, req, attempt, last_error, result,
                   executions_logs, heap, outcomes, response_text>>
    /\ UNCHANGED resVars
    /\ UNCHANGED <<current_step, errors, cancel_requested, execution_logs, suite,
                   validation>>
    /\ UNCHANGED <<state_manager, run_pc, run_state, run_step, dicts, current_report,
                   run_report, selVars, extVars>>

InitSuiteRuns ==
    /\ Init
    /\ flow = "test_suite"

NextSuiteRuns ==
    \/ StartItem(SuiteTexts)
    \/ SendRequest(SuiteOutcomes)
    \/ Record
    \/ Finish
    \/ ExecuteTestSuite

SpecSuiteRuns == InitSuiteRuns /\ [][NextSuiteRuns]_vars

\* ------------------------------------------------------- positive flows

\* The flows that run generated cases without a plan of items: the server's
\* routes take the cases from the generated mapping, the agent's node and
\* sat_core's flow from the endpoint's table, where insert_test_case has
\* stored them in the same order.  A generated case is known here by its
\* test_type and by what the oracle gave for a container such as headers
\* (all four are handled alike): a map, null, or no key at all.
TestTypes == {"positive", "negative"}
Containers == {"map", "null", "absent"}
GeneratedCases == [test_type : TestTypes, headers : Containers]
CaseLists == UNION {[1..n -> GeneratedCases] : n \in 0..MaxCases}

\* TestCaseRepository.insert_test_case: Json(test_case_data.get("headers") or {})
insert_test_case(c) ==
    [c EXCEPT !.headers = IF @ \in {"null", "absent"} THEN "map" ELSE @]

\* The rows of an endpoint's table: the generated cases, inserted in order.
StoredRows(cases) == [i \in 1..Len(cases) |-> insert_test_case(cases[i])]

\* The endpoint orderings the planning oracle may give: any list of known ids.
Orderings == PlansOver(DOMAIN endpoint_tables, MaxOrder)

Chosen(endpoint, cases, i) ==
    [endpoint |-> endpoint, test_type |-> cases[i].test_type, row |-> i,
     headers |-> cases[i].headers]

\* server.execute_positive_flow: for every endpoint of the mapping that has
\* cases, the first positive one, or the first one when none is positive.
RECURSIVE SelectPreferred(_, _)
SelectPreferred(ids, cases) ==
    IF ids = << >> THEN << >>
    ELSE LET arr == cases[Head(ids)]
             positive == {i \in 1..Len(arr) : arr[i].test_type = "positive"}
         IN  (IF arr = << >> THEN << >>
              ELSE IF positive # {}
              THEN << Chosen(Head(ids), arr,
                             CHOOSE i \in positive : \A j \in positive : i <= j) >>
              ELSE << Chosen(Head(ids), arr, 1) >>)
             \o SelectPreferred(Tail(ids), cases)

\* server.execute_all: every case of every endpoint of the mapping.
RECURSIVE SelectAll(_, _)
SelectAll(ids, cases) ==
    IF ids = << >> THEN << >>
    ELSE [i \in 1..Len(cases[Head(ids)]) |-> Chosen(Head(ids), cases[Head(ids)], i)]
         \o SelectAll(Tail(ids), cases)

\* run_positive_flow_node and run_positive_flow: for every id of the execution
\* order, the first row of the endpoint's table.  An empty table is passed
\* over by the node; in sat_core it gives first_row = None, kept here as a row
\* numbered 0.
RECURSIVE SelectFirstRows(_, _)
SelectFirstRows(ids, cases) ==
    IF ids = << >> THEN << >>
    ELSE (IF cases[Head(ids)] = << >>
          THEN << [endpoint |-> Head(ids), test_type |-> "", row |-> 0,
                   headers |-> "absent"] >>
          ELSE << Chosen(Head(ids), StoredRows(cases[Head(ids)]), 1) >>)
         \o SelectFirstRows(Tail(ids), cases)

\* The requests are built one after the other: test_case["headers"] raises
\* KeyError for a case without the key, first_row.get raises AttributeError
\* when there is no row, and the exception leaves the flow.
RECURSIVE ExecuteCases(_)
ExecuteCases(chosen) ==
    IF chosen = << >> THEN [cases |-> << >>, raised |-> "none"]
    ELSE IF Head(chosen).row = 0 THEN [cases |-> << >>, raised |-> "AttributeError"]
    ELSE IF Head(chosen).headers = "absent" THEN [cases |-> << >>, raised |-> "KeyError"]
    ELSE LET t == ExecuteCases(Tail(chosen))
         IN  [cases |-> << Head(chosen) >> \o t.cases, raised |-> t.raised]

Run(by, chosen) ==
    LET r == ExecuteCases(chosen)
    IN  [by |-> by, cases |-> r.cases, raised |-> r.raised]

InitSelection ==
    /\ SeqIdle
    /\ ResolverIdle
    /\ ReportIdle
    /\ state_manager = 0
    /\ run_pc = [r \in RunIds |-> "idle"]
    /\ run_state = [r \in RunIds |-> 0]
    /\ run_step = [r \in RunIds |-> 0]
    /\ dicts = [i \in 0..MaxThreads |-> << >>]
    /\ current_report = None
    /\ run_report = [r \in RunIds |-> None]
    /\ carried = << >>
    /\ mapping \in [DOMAIN endpoint_tables -> CaseLists]
    /\ exemplars = << >>
    /\ ExtIdle

\* POST /execute/positive
ExecutePositiveFlow ==
    /\ exemplars = << >>
    /\ exemplars' = << Run("execute_positive_flow", SelectPreferred(TableOrder, mapping)) >>
    /\ UNCHANGED <<mapping, extVars>>
    /\ UNCHANGED <<state_manager, run_pc, run_state, run_step, dicts, current_report,
                   run_report, carried>>
    /\ UNCHANGED <<seqVars, resVars, repVars>>

\* POST /execute/all
ExecuteAll ==
    /\ exemplars = << >>
    /\ exemplars' = << Run("execute_all", SelectAll(TableOrder, mapping)) >>
    /\ UNCHANGED <<mapping, extVars>>
    /\ UNCHANGED <<state_manager, run_pc, run_state, run_step, dicts, current_report,
                   run_report, carried>>
    /\ UNCHANGED <<seqVars, resVars, repVars>>

\* The agent's positive flow node on the planned order.
RunPositiveFlowNode ==
    /\ exemplars = << >>
    /\ \E ids \in Orderings :
          exemplars' = << Run("run_positive_flow_node",
                              SelectSeq(SelectFirstRows(ids, mapping),
                                        LAMBDA c : c.row # 0)) >>
    /\ UNCHANGED <<mapping, extVars>>
    /\ UNCHANGED <<state_manager, run_pc, run_state, run_step, dicts, current_report,
                   run_report, carried>>
    /\ UNCHANGED <<seqVars, resVars, repVars>>

\* sat_core's positive flow on the planned order.
RunPositiveFlow ==
    /\ exemplars = << >>
    /\ \E ids \in Orderings :
          exemplars' = << Run("run_positive_flow", SelectFirstRows(ids, mapping)) >>
    /\ UNCHANGED <<mapping, extVars>>
    /\ UNCHANGED <<state_manager, run_pc, run_state, run_step, dicts, current_report,
                   run_report, carried>>
    /\ UNCHANGED <<seqVars, resVars, repVars>>

NextSelection ==
    \/ ExecutePositiveFlow
    \/ ExecuteAll
    \/ RunPositiveFlowNode
    \/ RunPositiveFlow

SpecSelection == InitSelection /\ [][NextSelection]_vars

\* -------------------------------------------------------------- ingestion

\* The operations a specification may declare, each a path and a method key
\* as the document writes it, in the document's order.
DeclaredOrder ==
    << [path |-> "/a", method |-> "get"], [path |-> "/a", method |-> "post"],
       [path |-> "/b", method |-> "get"] >>

DeclaredOperations == {DeclaredOrder[i] : i \in 1..Len(DeclaredOrder)}

\* The specifications that are ingested: the operations under their paths.
Specifications == SUBSET DeclaredOperations

\* What a table row keeps of an operation: ep["method"].upper() / str(method).upper()
StoredOperation(op) == [path |-> op.path, method |-> Upper(op.method)]

\* initialize_database: DROP SCHEMA IF EXISTS public CASCADE; CREATE SCHEMA
\* public; CREATE TABLE api_endpoints
initialize_database == {}

\* insert_endpoint for every endpoint: INSERT ... ON CONFLICT (path, method)
\* DO UPDATE
InsertEndpoints(table, spec) == table \cup {StoredOperation(op) : op \in spec}

\* insert_operations: one INSERT INTO api_specs per operation, in the
\* document's order; nothing is deleted first.
insert_operations(rows, spec) ==
    LET ops == SelectSeq(DeclaredOrder, LAMBDA o : o \in spec)
    IN  rows \o [i \in 1..Len(ops) |-> StoredOperation(ops[i])]

InitIngest ==
    /\ SeqIdle
    /\ ResolverIdle
    /\ ReportIdle
    /\ ServerIdle

\* sat_core.insert_apis_into_db on a specification file.
InsertApisIntoDb ==
    /\ \E spec \in Specifications :
          /\ api_endpoints' = InsertEndpoints(initialize_database, spec)
          /\ ingested' = Some([by |-> "insert_apis_into_db", spec |-> spec])
    /\ UNCHANGED <<api_specs, exceptIngest>>
    /\ UNCHANGED <<seqVars, resVars, repVars>>
    /\ UNCHANGED <<state_manager, run_pc, run_state, run_step, dicts, current_report,
                   run_report, carried, selVars>>

\* POST /files/{filename}/ingest on an uploaded specification.
IngestFileToDb ==
    /\ \E spec \in Specifications :
          /\ Len(api_specs) + Cardinality(spec) <= MaxIngests * Len(DeclaredOrder)
          /\ api_specs' = insert_operations(api_specs, spec)
          /\ ingested' = Some([by |-> "ingest_file_to_db", spec |-> spec])
    /\ UNCHANGED <<api_endpoints, exceptIngest>>
    /\ UNCHANGED <<seqVars, resVars, repVars>>
    /\ UNCHANGED <<state_manager, run_pc, run_state, run_step, dicts, current_report,
                   run_report, carried, selVars>>

NextIngest ==
    \/ InsertApisIntoDb
    \/ IngestFileToDb

SpecIngest == InitIngest /\ [][NextIngest]_vars

\* ------------------------------------------------------ lists of endpoints

\* The ids a request may name: 9 has no table.
EndpointIds == {1, 7, 9}
EndpointLists == UNION {[1..n -> EndpointIds] : n \in 0..MaxIds}

\* The keys of a dict built by inserting the ids of a list in order.
RECURSIVE KeysOf(_, _)
KeysOf(ids, keys) ==
    IF ids = << >> THEN keys
    ELSE KeysOf(Tail(ids),
                IF \E i \in 1..Len(keys) : keys[i] = Head(ids) THEN keys
                ELSE Append(keys, Head(ids)))

\* order_testcases_and_execute: endpoints_to_test, the endpoints whose tables
\* its loop goes through.
endpoints_to_test(endpoints_list) ==
    IF Len(endpoints_list) = 0 THEN TableOrder
    ELSE KeysOf(SelectSeq(endpoints_list, LAMBDA k : k \in DOMAIN endpoint_tables), << >>)

\* backend_interface.__execute_all_test_cases_differnt_endpoint, called with
\* the positional arguments args: the function is declared without
\* parameters and calls order_testcases_and_execute([]).
execute_all_test_cases_differnt_endpoint(args) ==
    IF Len(args) # 0 THEN [raised |-> "TypeError", tested |-> << >>]
    ELSE [raised |-> "none", tested |-> endpoints_to_test(<< >>)]

InitEndpoints ==
    /\ SeqIdle
    /\ ResolverIdle
    /\ ReportIdle
    /\ ServerIdle

Selected(by, ids, r) ==
    Append(selections, [by |-> by, endpoints_list |-> ids, status |-> 200,
                        raised |-> r.raised, tested |-> r.tested])

\* POST /run-all-tests
RunAllTests ==
    /\ Len(selections) < MaxRuns
    /\ selections' = Selected("run_all_tests", << >>,
                              execute_all_test_cases_differnt_endpoint(<< >>))
    /\ UNCHANGED exceptSelections
    /\ UNCHANGED <<seqVars, resVars, repVars>>
    /\ UNCHANGED <<state_manager, run_pc, run_state, run_step, dicts, current_report,
                   run_report, carried, selVars>>

\* POST /run-individual-endpoints with a body naming endpoint_ids: an empty
\* list is refused, any other is handed to the backend interface in a
\* background thread that logs an exception and ends.
RunIndividualEndpoints ==
    /\ Len(selections) < MaxRuns
    /\ \E ids \in EndpointLists :
          selections' =
              IF ids = << >>
              THEN Append(selections, [by |-> "run_individual_endpoints",
                                       endpoints_list |-> ids, status |-> 400,
                                       raised |-> "none", tested |-> << >>])
              ELSE Selected("run_individual_endpoints", ids,
                            execute_all_test_cases_differnt_endpoint(<< ids >>))
    /\ UNCHANGED exceptSelections
    /\ UNCHANGED <<seqVars, resVars, repVars>>
    /\ UNCHANGED <<state_manager, run_pc, run_state, run_step, dicts, current_report,
                   run_report, carried, selVars>>

\* order_testcases_and_execute called with a list of its own.
OrderTestcasesAndExecute ==
    /\ Len(selections) < MaxRuns
    /\ \E ids \in EndpointLists :
          selections' = Selected("order_testcases_and_execute", ids,
                                 [raised |-> "none", tested |-> endpoints_to_test(ids)])
    /\ UNCHANGED exceptSelections
    /\ UNCHANGED <<seqVars, resVars, repVars>>
    /\ UNCHANGED <<state_manager, run_pc, run_state, run_step, dicts, current_report,
                   run_report, carried, selVars>>

NextEndpoints ==
    \/ RunAllTests
    \/ RunIndividualEndpoints
    \/ OrderTestcasesAndExecute

SpecEndpoints == InitEndpoints /\ [][NextEndpoints]_vars

\* ------------------------------------------------------- planning answers

\* What the planning oracle's text may hold once it is stripped: no JSON at
\* all, a JSON number, a JSON object, or a JSON list.  An item of a list is a
\* map, known by its key-value pairs in order, or a number.
MapItem(pairs) == [k |-> "map", pairs |-> pairs]
NumberItem == [k |-> "number", pairs |-> << >>]
StringItem == [k |-> "string", pairs |-> << >>]
PlanItems ==
    { MapItem(<< EndpointRef(7) >>), MapItem(<< TestCaseRef(1) >>),
      MapItem(<< TestCaseRef(1), EndpointRef(7) >>), NumberItem }
JsonList(items) == [k |-> "list", items |-> items]
Garbage == [k |-> "garbage", items |-> << >>]
JsonNumber == [k |-> "number", items |-> << >>]
JsonObject == [k |-> "object", items |-> << StringItem >>]
PlannerTexts ==
    {Garbage, JsonNumber, JsonObject} \cup {JsonList(l) : l \in PlansOver(PlanItems, MaxItems)}

\* ExecutionPlanner._parse_planning_response: [] unless json.loads gives a list.
parse_planning_response(text) ==
    IF text.k = "list" THEN text ELSE JsonList(<< >>)

\* run_all_possible_tests_node: execution_order = json.loads(cleaned_output),
\* [] when that raises.
ParseNode(text) ==
    IF text.k = "garbage" THEN JsonList(<< >>) ELSE text

\* order_testcases_and_execute: order = json.loads(cleaned_output) and
\* len(order) inside the try, [] when either raises.
ParseOrderTestcases(text) ==
    IF text.k \in {"garbage", "number"} THEN JsonList(<< >>) ELSE text

Sequencers == {"test_suite", "all_tests_node", "order_testcases"}

ParsePlan(by, text) ==
    IF by = "test_suite" THEN parse_planning_response(text)
    ELSE IF by = "all_tests_node" THEN ParseNode(text)
    ELSE ParseOrderTestcases(text)

\* The pairs of a map item a sequencer goes through: every pair under
\* item.items(); in order_testcases_and_execute the all_endpoints pair when the
\* item has one, else its all_testcases pair.
PairsRun(by, item) ==
    IF by # "order_testcases" THEN item.pairs
    ELSE LET eps == SelectSeq(item.pairs, LAMBDA q : q.key = "all_endpoints")
         IN  IF eps # << >> THEN << eps[1] >>
             ELSE SelectSeq(item.pairs, LAMBDA q : q.key = "all_testcases")

\* What an item that is no map raises: item.items() and item.get raise
\* AttributeError, "all_endpoints" in item raises TypeError for a number.
RaisedBy(by, item) ==
    IF by = "order_testcases" /\ item.k = "number" THEN "TypeError" ELSE "AttributeError"

\* `for item in execution_order` over what iterating the value yields.
RECURSIVE WalkPlan(_, _)
WalkPlan(by, items) ==
    IF items = << >> THEN [ran |-> << >>, raised |-> "none"]
    ELSE IF Head(items).k # "map" THEN [ran |-> << >>, raised |-> RaisedBy(by, Head(items))]
    ELSE LET t == WalkPlan(by, Tail(items))
         IN  [ran |-> PairsRun(by, Head(items)) \o t.ran, raised |-> t.raised]

\* The sequencer on a parsed plan: a number cannot be iterated, an object
\* yields its keys.
Sequence(by, plan) ==
    IF plan.k = "number" THEN [ran |-> << >>, raised |-> "TypeError"]
    ELSE WalkPlan(by, plan.items)

InitPlanning ==
    /\ SeqIdle
    /\ ResolverIdle
    /\ ReportIdle
    /\ ServerIdle

Planned(by, text) ==
    LET plan == ParsePlan(by, text)
        r == Sequence(by, plan)
    IN  [by |-> by, text |-> text, plan |-> plan, ran |-> r.ran, raised |-> r.raised]

\* ExecutionPlanner.plan_execution_order and TestExecutor.execute_test_suite
ExecutePlannedSuite ==
    /\ Len(plannings) < MaxRuns
    /\ \E text \in PlannerTexts : plannings' = Append(plannings, Planned("test_suite", text))
    /\ UNCHANGED exceptPlannings
    /\ UNCHANGED <<seqVars, resVars, repVars>>
    /\ UNCHANGED <<state_manager, run_pc, run_state, run_step, dicts, current_report,
                   run_report, carried, selVars>>

\* run_all_possible_tests_node on an endpoint's table
PlanInNode ==
    /\ Len(plannings) < MaxRuns
    /\ \E text \in PlannerTexts : plannings' = Append(plannings, Planned("all_tests_node", text))
    /\ UNCHANGED exceptPlannings
    /\ UNCHANGED <<seqVars, resVars, repVars>>
    /\ UNCHANGED <<state_manager, run_pc, run_state, run_step, dicts, current_report,
                   run_report, carried, selVars>>

\* order_testcases_and_execute on an endpoint's table
PlanInOrderTestcases ==
    /\ Len(plannings) < MaxRuns
    /\ \E text \in PlannerTexts : plannings' = Append(plannings, Planned("order_testcases", text))
    /\ UNCHANGED exceptPlannings
    /\ UNCHANGED <<seqVars, resVars, repVars>>
    /\ UNCHANGED <<state_manager, run_pc, run_state, run_step, dicts, current_report,
                   run_report, carried, selVars>>

NextPlanning ==
    \/ ExecutePlannedSuite
    \/ PlanInNode
    \/ PlanInOrderTestcases

SpecPlanning == InitPlanning /\ [][NextPlanning]_vars

\* ---------------------------------------------------------- serializations

\* TestSuiteReport.to_dict: the summary as it stands ({} until finalize has
\* run, here None) and the results as they stand.
to_dict(summary, results) == [summary |-> summary, test_results |-> results]

\* TestReporter.generate_text_report: the counts are read from the summary,
\* summary['total_tests'] raising KeyError while it is {}, and the sections of
\* failed and of all tests from the results.
generate_text_report(summary, results) ==
    IF summary = None
    THEN [raised |-> "KeyError", total_tests |-> 0, passed_tests |-> 0,
          failed_tests |-> 0, failed_listed |-> 0, listed |-> 0]
    ELSE [raised |-> "none", total_tests |-> summary[1].total_tests,
          passed_tests |-> summary[1].passed_tests,
          failed_tests |-> summary[1].failed_tests,
          failed_listed |-> Len(SelectSeq(results, LAMBDA r : ~r.success)),
          listed |-> Len(results)]

\* A reporter whose start_test_suite has made a report.
InitSerialize ==
    /\ SeqIdle
    /\ ResolverIdle
    /\ ReportIdle
    /\ ServerIdle

\* TestReporter.start_test_suite: a new, empty report replaces the current one.
ReporterStart ==
    /\ current_step = ""
    /\ suite # << >> \/ test_results # None
    /\ suite' = << >>
    /\ test_results' = None
    /\ UNCHANGED <<current_step, errors, cancel_requested, execution_logs, validation>>
    /\ UNCHANGED <<seqVars, resVars, srvVars>>

\* TestSuiteReport.add_test_result, at any time.
ReporterAdd ==
    /\ current_step = ""
    /\ Len(suite) < MaxListed
    /\ \E response \in SessionResponses :
          suite' = Append(suite, TestResult("t", response))
    /\ UNCHANGED <<current_step, errors, cancel_requested, execution_logs,
                   test_results, validation>>
    /\ UNCHANGED <<seqVars, resVars, srvVars>>

\* TestReporter.finalize_report, at any time.
ReporterFinalize ==
    /\ current_step = ""
    /\ test_results' = Some(calculate_summary(suite))
    /\ UNCHANGED <<current_step, errors, cancel_requested, execution_logs, suite,
                   validation>>
    /\ UNCHANGED <<seqVars, resVars, srvVars>>

\* generate_json_report and generate_text_report, one after the other.
GenerateReports ==
    /\ current_step = ""
    /\ serialized' = Some([json |-> to_dict(test_results, suite),
                           text |-> generate_text_report(test_results, suite)])
    /\ UNCHANGED exceptSerialized
    /\ UNCHANGED <<seqVars, resVars, repVars>>
    /\ UNCHANGED <<state_manager, run_pc, run_state, run_step, dicts, current_report,
                   run_report, carried, selVars>>

NextSerialize ==
    \/ ReporterStart
    \/ ReporterAdd
    \/ ReporterFinalize
    \/ GenerateReports

SpecSerialize == InitSerialize /\ [][NextSerialize]_vars

\* ------------------------------------------------------------------ backoff

\* backoff_seconds = 0.5, in milliseconds.
InitialBackoff == 500

\* backoff_seconds = min(backoff_seconds * 2, 5) without the ceiling.
NextBackoff_Uncapped(b) == b * 2

\* backoff_seconds = min(backoff_seconds * 2, 5)
NextBackoff(b) == IF b * 2 < 5000 THEN b * 2 ELSE 5000

InitBackoff ==
    /\ SeqIdle
    /\ ResolverIdle
    /\ ReportIdle
    /\ ServerIdle

\* make_request or check_connectivity is entered by a client whose
\* config.api.max_retries is retries.
EnterRetryLoop ==
    /\ IF backoff = None THEN TRUE ELSE backoff[1].pc = "returned"
    /\ \E by \in {"make_request", "check_connectivity"}, retries \in 0..MaxRetries :
          backoff' = Some([by |-> by, retries |-> retries, attempt |-> 0,
                           backoff_seconds |-> InitialBackoff, sleeps |-> << >>,
                           pc |-> "request"])
    /\ UNCHANGED exceptBackoff
    /\ UNCHANGED <<seqVars, resVars, repVars>>
    /\ UNCHANGED <<state_manager, run_pc, run_state, run_step, dicts, current_report,
                   run_report, carried, selVars>>

\* One pass of make_request's `while True`.
MakeRequestPass ==
    /\ backoff # None
    /\ backoff[1].by = "make_request"
    /\ backoff[1].pc = "request"
    /\ \E o \in AttemptOutcomes :
          backoff' =
              IF ~IsRetryable(o) \/ backoff[1].attempt >= backoff[1].retries
              THEN Some([backoff[1] EXCEPT !.pc = "returned"])
              ELSE Some([backoff[1] EXCEPT
                            !.attempt = @ + 1,
                            !.sleeps = Append(@, backoff[1].backoff_seconds),
                            !.backoff_seconds = NextBackoff(@)])
    /\ UNCHANGED exceptBackoff
    /\ UNCHANGED <<seqVars, resVars, repVars>>
    /\ UNCHANGED <<state_manager, run_pc, run_state, run_step, dicts, current_report,
                   run_report, carried, selVars>>

\* One pass of check_connectivity's `for attempt in range(tries + 1)`.
CheckConnectivityPass ==
    /\ backoff # None
    /\ backoff[1].by = "check_connectivity"
    /\ backoff[1].pc = "request"
    /\ \E reachable \in BOOLEAN :
          backoff' =
              IF reachable THEN Some([backoff[1] EXCEPT !.pc = "returned"])
              ELSE IF backoff[1].attempt < backoff[1].retries
              THEN Some([backoff[1] EXCEPT
                            !.attempt = @ + 1,
                            !.sleeps = Append(@, backoff[1].backoff_seconds),
                            !.backoff_seconds = NextBackoff(@)])
              ELSE Some([backoff[1] EXCEPT !.pc = "returned"])
    /\ UNCHANGED exceptBackoff
    /\ UNCHANGED <<seqVars, resVars, repVars>>
    /\ UNCHANGED <<state_manager, run_pc, run_state, run_step, dicts, current_report,
                   run_report, carried, selVars>>

NextBackoffStep ==
    \/ EnterRetryLoop
    \/ MakeRequestPass
    \/ CheckConnectivityPass

SpecBackoff == InitBackoff /\ [][NextBackoffStep]_vars

\* ------------------------------------------- validation in the positive flow

\* What a row holds as expected_status: nothing, or a status.
RowStatuses == {None} \cup {Some(c) : c \in {200, 500}}

\* run_positive_flow: expected_status = int(first_row.get("expected_status"))
\* if first_row.get("expected_status") else None
ExpectedStatusOf(stored) == IF stored = None \/ stored = Some(0) THEN None ELSE stored

\* What call_api returns: the status and the data of a response, or
\* {"status_code": None, "error": ...} after a RequestException.
CallApiResults == {r \in ValidatorResults : r.status_code = None => r.data = None}

\* validate_response as run_positive_flow calls it, with an expected_status
\* that may be None: status_ok = result.get("status_code") == expected_status.
validate_outcome(res, expected_status, expected_schema) ==
    LET status_ok == res.status_code = expected_status
        branch == SchemaBranch(status_ok, expected_schema, res.data)
    IN  [passed  |-> status_ok /\ branch # "invalid",
         details |->
            [status_validation |-> [expected |-> expected_status,
                                    actual |-> res.status_code,
                                    passed |-> status_ok],
             schema_validation |-> IF branch = "none" THEN None
                                   ELSE Some([passed |-> branch = "valid"]),
             errors |-> SchemaErrors(branch, expected_schema, res.data)]]

InitValidation ==
    /\ SeqIdle
    /\ ResolverIdle
    /\ ReportIdle
    /\ ServerIdle

\* run_positive_flow after call_api has returned: the expectations are read
\* from the row and the outcome is validated.
ValidateOutcome ==
    /\ current_step = ""
    /\ \E res \in CallApiResults, stored \in RowStatuses,
          expected_schema \in ExpectedSchemas :
          validation' = Some([result |-> res,
                              expected_status |-> ExpectedStatusOf(stored),
                              expected_schema |-> expected_schema,
                              return |-> validate_outcome(res, ExpectedStatusOf(stored),
                                                          expected_schema)])
    /\ UNCHANGED <<current_step, errors, cancel_requested, execution_logs, suite,
                   test_results>>
    /\ UNCHANGED <<seqVars, resVars, srvVars>>

NextValidation ==
    \/ ValidateOutcome

SpecValidation == InitValidation /\ [][NextValidation]_vars

\* -------------------------------------------------------- direct execution

\* The cases a direct execution route runs, each with its test_name and with
\* what its response comes to (APIResponse.success: a 2xx status).
DirectCases == [test_name : {"a", "b"}, success : BOOLEAN]
DirectLists == UNION {[1..n -> DirectCases] : n \in 0..MaxDirect}

\* results.setdefault("logs", {})[case.get("test_name", "")] = {...} for every
\* case in turn: a later case replaces the entry of an earlier one of the
\* same name.
RECURSIVE LogsOf(_, _)
LogsOf(cases, logs) ==
    IF cases = << >> THEN logs
    ELSE LogsOf(Tail(cases),
                [k \in DOMAIN logs \cup {Head(cases).test_name} |->
                    IF k = Head(cases).test_name THEN Head(cases).success ELSE logs[k]])

\* The results a route returns: executed counts the cases, the summary's
\* passed_tests the entries of results["logs"] whose response has success;
\* results["logs"] raises KeyError when no case has created it.
DirectResults(cases) ==
    IF cases = << >>
    THEN [raised |-> "KeyError", total_tests |-> 0, passed_tests |-> 0, failed_tests |-> 0]
    ELSE LET logs == LogsOf(cases, << >>)
             passed == Cardinality({k \in DOMAIN logs : logs[k]})
         IN  [raised |-> "none", total_tests |-> Len(cases), passed_tests |-> passed,
              failed_tests |-> Len(cases) - passed]

InitDirect ==
    /\ SeqIdle
    /\ ResolverIdle
    /\ ReportIdle
    /\ ServerIdle

\* POST /execute/testcases with the cases of the payload.
ExecuteTestcases ==
    /\ \E cases \in DirectLists :
          direct' = Some([by |-> "execute_testcases", cases |-> cases,
                          results |-> DirectResults(cases)])
    /\ UNCHANGED exceptDirect
    /\ UNCHANGED <<seqVars, resVars, repVars>>
    /\ UNCHANGED <<state_manager, run_pc, run_state, run_step, dicts, current_report,
                   run_report, carried, selVars>>

\* POST /execute/all with the cases of the cached mapping.
ExecuteAllCases ==
    /\ \E cases \in DirectLists :
          direct' = Some([by |-> "execute_all", cases |-> cases,
                          results |-> DirectResults(cases)])
    /\ UNCHANGED exceptDirect
    /\ UNCHANGED <<seqVars, resVars, repVars>>
    /\ UNCHANGED <<state_manager, run_pc, run_state, run_step, dicts, current_report,
                   run_report, carried, selVars>>

\* POST /execute/positive with the cases it selected.
ExecutePositiveCases ==
    /\ \E cases \in DirectLists :
          direct' = Some([by |-> "execute_positive_flow", cases |-> cases,
                          results |-> DirectResults(cases)])
    /\ UNCHANGED exceptDirect
    /\ UNCHANGED <<seqVars, resVars, repVars>>
    /\ UNCHANGED <<state_manager, run_pc, run_state, run_step, dicts, current_report,
                   run_report, carried, selVars>>

NextDirect ==
    \/ ExecuteTestcases
    \/ ExecuteAllCases
    \/ ExecutePositiveCases

SpecDirect == InitDirect /\ [][NextDirect]_vars

\* ----------------------------------------------------------------- claims

\* Every item of the plan resolves to a stored case.
AllResolve(f, plan, table) ==
    \A i \in 1..Len(plan) :
        LET r == Resolve(f, plan[i], table) IN r.err = "none" /\ r.case # None

\* One execution per plan item, in the order of the plan.
ExpectedCalls(f, plan, table) ==
    [i \in 1..Len(plan) |->
        [table |-> table, step |-> i,
         test_name |-> Resolve(f, plan[i], table).case[1].test_name]]

\* The sequencer is through with the current plan: walked to its end, or left.
PlanOver == pc \in {"raised", "failed"} \/ (pc = "item" /\ step > Len(order))

CallsOfPlan == SelectSeq(calls, LAMBDA c : c.table = table_name)

\* C1: for a plan whose items all resolve to a stored case, the sequencer
\* makes exactly one HTTP execution per plan item, in the order of the plan.
C1_PlanOrder ==
    (flow # "positive_flow_node" /\ PlanOver /\ AllResolve(flow, order, table_name))
        => CallsOfPlan = ExpectedCalls(flow, order, table_name)

\* C2: after N sequencer steps the history holds N entries less the number
\* of skipped items.
C2_HistoryCount ==
    (pc \in {"item", "next_table", "done"})
        => Cardinality(DOMAIN executions_logs) = Processed - skipped

\* C3: an entry of the history, once written, keeps its request and response
\* whatever is executed afterwards.
C3_AppendOnly ==
    [][\A k \in DOMAIN executions_logs :
          k \in DOMAIN executions_logs'
              => heap'[executions_logs'[k]] = heap[executions_logs[k]]]_vars

\* C4: when the oracle is asked to fill in an item, every earlier call of the
\* run has completed and been recorded, and the history it is given holds the
\* record of every item executed earlier in the run.
C4_SnapshotComplete ==
    (pc = "call" /\ outcomes = << >>)
        => /\ Len(calls) = Len(executed) + 1
           /\ \A i \in 1..Len(executed) :
                 \E k \in DOMAIN snapshot : snapshot[k] = executed[i].rec

AllTimeouts(os) == os # << >> /\ \A i \in 1..Len(os) : os[i].exc = "Timeout"

\* C5: against a target that always times out the client makes at most
\* max_retries + 1 attempts and returns an error outcome: no status code, the
\* error set, nothing raised.
C5_RetryBound ==
    /\ Len(outcomes) <= max_retries + 1
    /\ pc # "raised"
    /\ (pc = "record" /\ AllTimeouts(outcomes))
           => (result.status_code = None /\ result.error # None)

C5_Witness ==
    /\ pc = "record"
    /\ flow # "order_testcases"
    /\ AllTimeouts(outcomes)
    /\ Len(outcomes) = max_retries + 1
    /\ result.error = Some("Request timeout")

\* C6: only an attempt that met a timeout or a connection failure is followed
\* by another attempt; an HTTP status or another request exception ends the call.
C6_RetryOnlyNetwork ==
    /\ \A i \in 1..(Len(outcomes) - 1) :
          outcomes[i].exc \in {"Timeout", "ConnectionError"}
    /\ (outcomes # << >>
        /\ outcomes[Len(outcomes)].exc \notin {"Timeout", "ConnectionError"})
           => pc \in {"record", "done"}

C6_Witness ==
    /\ pc = "record"
    /\ Len(outcomes) = 2
    /\ outcomes[1].exc = "ConnectionError"
    /\ outcomes[2].status = Some(500)
    /\ result.status_code = Some(500)

\* C7: an error outcome for a timeout or a connection failure is returned only
\* after max_retries + 1 failed attempts.
C7_ErrorAfterRetries ==
    (pc = "record" /\ result.status_code = None
     /\ outcomes[Len(outcomes)].exc \in {"Timeout", "ConnectionError"})
        => Len(outcomes) = max_retries + 1

\* The pointers a schema refers to.
RECURSIVE RefsIn(_)
RefsIn(node) ==
    IF node.k = "str" THEN {}
    ELSE IF node.k = "dict" /\ HasKey(node, "$ref") THEN {Get(node, "$ref").s}
    ELSE UNION {RefsIn(node.items[i].val) : i \in 1..Len(node.items)}

\* The pointers that the schema a pointer leads to refers to.
Targets(doc, p) ==
    LET r == resolve_reference(doc, p) IN IF r = None THEN {} ELSE RefsIn(r[1])

\* The pointers reached from a set of pointers along chains of references.
RECURSIVE ReachFrom(_, _)
ReachFrom(doc, P) ==
    LET Q == P \cup UNION {Targets(doc, p) : p \in P}
    IN  IF Q = P THEN P ELSE ReachFrom(doc, Q)

\* The pointers that lie on a cycle of references.
Cyclic(doc) == {p \in Pointers : p \in ReachFrom(doc, Targets(doc, p))}

\* The schemas of POST /p in a document, and in the endpoint extracted from it.
BodySchema(request_body) ==
    Get(Get(Get(request_body, "content"), "application/json"), "schema")
ResponseSchema(responses) == Get(Get(responses, "200"), "schema")
Operation(doc) == Get(Get(Get(doc, "paths"), "/p"), "post")

\* The resolutions of one extract_endpoints run: the schema and its result.
Resolutions(run) ==
    {[schema |-> BodySchema(Get(Operation(run.doc), "requestBody")),
      resolved |-> BodySchema(run.endpoints[1].request_body[1])],
     [schema |-> ResponseSchema(Get(Operation(run.doc), "responses")),
      resolved |-> ResponseSchema(run.endpoints[1].responses)]}

\* C8: when the references of a document form a cycle (A -> B -> A), every
\* resolution terminates within the recursion limit, and the result of
\* resolving a schema that leads into the cycle holds a pointer of the cycle
\* as a literal {"$ref": pointer} marker.
C8_CycleTerminates ==
    /\ ~overflow
    /\ \A i \in 1..Len(extracted) : \A r \in Resolutions(extracted[i]) :
          LET cyclic == Cyclic(extracted[i].doc) IN
          (ReachFrom(extracted[i].doc, RefsIn(r.schema)) \cap cyclic # {})
              => (RefsIn(r.resolved) \cap cyclic # {})

\* A -> B -> A was resolved from A: B is inlined in A, and where B refers
\* back to A the marker stands.
C8_Witness ==
    /\ Len(extracted) = 1
    /\ ~overflow
    /\ swagger_file = Document(
           Dict(<<Entry("x", Ref(Pointer("B"))), Entry("y", Str(<<"string">>))>>),
           Dict(<<Entry("x", Ref(Pointer("A"))), Entry("y", Str(<<"string">>))>>),
           Ref(Pointer("A")), Str(<<"string">>))
    /\ BodySchema(extracted[1].endpoints[1].request_body[1]) =
           Dict(<<Entry("x", Dict(<<Entry("x", Ref(Pointer("A"))),
                                    Entry("y", Str(<<"string">>))>>)),
                  Entry("y", Str(<<"string">>))>>)

\* C9: the visited set is per chain: a schema referenced from two sibling
\* branches is inlined in both, and a {"$ref": pointer} marker is left in a
\* result only for a pointer that lies on a cycle of references (or that
\* cannot be resolved at all).
C9_PerChain ==
    \A i \in 1..Len(extracted) : \A r \in Resolutions(extracted[i]) :
        \A p \in RefsIn(r.resolved) :
            \/ resolve_reference(extracted[i].doc, p) = None
            \/ p \in Cyclic(extracted[i].doc)

C11_GarbageFallback ==
    /\ response_text.kind = "garbage"
           => /\ ParseEnrichment(response_text, LlmInput(flow, testcase))
                     = LlmInput(flow, testcase)
              /\ req = [url |-> testcase.url, method |-> testcase.method]
              /\ pc \in {"call", "record"}
              /\ calls # << >> /\ calls[Len(calls)].test_name = testcase.test_name
    /\ pc \notin {"call", "record"} => Len(executed) = Len(calls)

\* An item whose oracle answer was not JSON has been executed and recorded
\* with the url of its stored case.
C11_Witness ==
    /\ pc = "item"
    /\ executed # << >>
    /\ executed[Len(executed)].text = "garbage"
    /\ executed[Len(executed)].rec.request.url = testcase.url
    /\ executed[Len(executed)].rec.response.status_code = Some(200)

\* C12: when the oracle answers JSON that is not a map, enrichment returns
\* the template fields (llm_input) and the item is executed like any other:
\* the sequencer goes on, it is not halted by the answer.
C12_NonMapFallback ==
    response_text.kind = "nonmap"
        => /\ ParseEnrichment(response_text, LlmInput(flow, testcase))
                  = LlmInput(flow, testcase)
           /\ pc \in {"call", "record"}

\* The plan item has no case: its endpoint is in no table map, or no row has
\* its id.
NotFound(item) ==
    LET r == Resolve(flow, item, table_name) IN r.err # "none" \/ r.case = None

\* C13: a plan item whose endpoint or test case cannot be found is skipped:
\* the sequencer is never stopped at such an item, it goes on to the items
\* after it.
C13_NotFoundSkipped ==
    \A i \in 1..Len(order) :
        NotFound(order[i]) => ~(step = i /\ pc \in {"raised", "failed"})

\* The validation observed, when there is one.
Validated == validation # None
StatusMatched == validation[1].result.status_code = Some(validation[1].expected_status)

\* C17: when the actual status differs from the expected one, the verdict is
\* passed = false and the schema check is not performed: the details hold no
\* schema verdict of passed and no validation message, and with a schema to
\* check they hold the note that it was skipped, whatever the body is.
C17_StatusMismatch ==
    (Validated /\ ~StatusMatched)
        => LET v == validation[1] IN
           /\ v.return.passed = FALSE
           /\ v.return.details.status_validation.passed = FALSE
           /\ v.return.details.schema_validation # Some([passed |-> TRUE])
           /\ v.return.details.errors =
                  IF v.expected_schema = EmptySchema THEN << >>
                  ELSE << "Schema skipped due to failed status code" >>

\* Expected 201, actual 500, a schema requiring id and a body without it.
C17_Witness ==
    /\ Validated
    /\ validation[1].expected_status = 201
    /\ validation[1].result = [status_code |-> Some(500), data |-> Some(Object({}))]
    /\ validation[1].expected_schema = Schema(Some("object"), {"id"})
    /\ validation[1].return.passed = FALSE
    /\ Len(validation[1].return.details.errors) = 1

\* Whether a body conforms to a schema: JSON null is no object, and required
\* asks nothing of it.
Conforms(schema, data) ==
    IF data = None THEN schema.type = None
    ELSE /\ schema.type # None => data[1].kind = schema.type[1]
         /\ data[1].kind = "object" => schema.required \subseteq data[1].keys

\* C18: when the actual status equals the expected one and the expected schema
\* is not empty, the verdict is passed = true exactly when the response body
\* conforms to the schema.
C18_SchemaVerdict ==
    (Validated /\ StatusMatched /\ validation[1].expected_schema # EmptySchema)
        => (validation[1].return.passed
                <=> Conforms(validation[1].expected_schema, validation[1].result.data))

\* C19 as amended: the summary of a finalized report counts the results added,
\* those with success = true and the rest, and its success rate is
\* 100 * passed / total rounded to two decimals (0 without results).
C19_Summary ==
    (current_step = "" /\ test_results # None)
        => LET m == test_results[1]
               p == Cardinality({i \in 1..Len(suite) : suite[i].success})
           IN  /\ m.total_tests = Len(suite)
               /\ m.passed_tests = p
               /\ m.failed_tests = m.total_tests - m.passed_tests
               /\ 2 * (m.success_rate * Len(suite) - 10000 * p) <= Len(suite)
               /\ 2 * (10000 * p - m.success_rate * Len(suite)) <= Len(suite)
               /\ Len(suite) = 0 => m.success_rate = 0

\* Five results, three of them successes: 5, 3, 2 and 60.0.
C19_Witness ==
    /\ current_step = ""
    /\ Len(suite) = 5
    /\ test_results =
           Some([total_tests |-> 5, passed_tests |-> 3, failed_tests |-> 2,
                 success_rate |-> 6000])

\* C19 as stated: the success rate is 100 * passed / total itself.
C19_ExactRate ==
    (current_step = "" /\ test_results # None /\ Len(suite) > 0)
        => test_results[1].success_rate * test_results[1].total_tests
               = 10000 * test_results[1].passed_tests

\* What the validator says of a recorded response for the case it belongs to
\* (the stored cases have no schema, so the body plays no part).
Accepted(c, response) ==
    validate_response([status_code |-> response.status_code, data |-> None],
                      c.expected_status, c.expected_schema).passed

\* The stored case with a given name.
StoredCases ==
    UNION {{Rows(endpoint_tables[e])[i] : i \in 1..Len(Rows(endpoint_tables[e]))} :
               e \in DOMAIN endpoint_tables}
CaseNamed(test_name) == CHOOSE c \in StoredCases : c.test_name = test_name

\* C16: every executed case is counted as passed exactly when the validator
\* accepts its response against the case's own expected_status and
\* expected_schema: in the results execute_test_suite returns, passed_tests
\* counts the history entries the validator accepts, and an entry is flagged a
\* success exactly when it is one of them.
C16_PassedIffValid ==
    (flow = "test_suite" /\ pc = "done" /\ current_step = "")
        => LET logs == Deref(executions_logs, heap) IN
           /\ \A k \in DOMAIN logs :
                  logs[k].response.success <=> Accepted(CaseNamed(k), logs[k].response)
           /\ test_results[1].passed_tests =
                  Cardinality({k \in DOMAIN logs : Accepted(CaseNamed(k), logs[k].response)})

\* The run's thread reaches the end of the graph: every node catches what its
\* body raises and the graph has no cycle.
RunCompletes == <>(current_step = "END")

\* C14: whichever nodes or plan items fail, the run eventually terminates
\* with a report produced.
C14_RunReturnsReport == <>(current_step = "END" /\ test_results # None)

\* How the report presents an entry, and how the execution behind a record
\* ended.
EntryKind(r) ==
    IF r.error_message # None THEN "execution error"
    ELSE IF r.success THEN "passed" ELSE "failed validation"
OutcomeKind(e) ==
    IF e.rec.response.error # None THEN "execution error"
    ELSE IF Accepted(e.case, e.rec.response) THEN "passed" ELSE "failed validation"

\* C15: the report tells a failed validation, an execution error and a plan
\* item skipped because its case was not found from one another: every
\* execution in the history the report is built from has an entry of its
\* kind, and a skipped item has an entry with a "not found" error.
C15_ReportDistinguishes ==
    (current_step = "END" /\ test_results # None)
        => /\ \A i \in 1..Len(executed) :
                  executed[i].key \in DOMAIN execution_logs
                      => \E j \in 1..Len(suite) :
                             /\ suite[j].test_name = executed[i].key
                             /\ EntryKind(suite[j]) = OutcomeKind(executed[i])
           /\ skipped > 0
                  => \E j \in 1..Len(suite) : suite[j].error_message = Some("not found")

\* C20: once cancellation has been requested for a run, the call in flight
\* finishes and is recorded, and no further plan item of the run is started:
\* no further call begins.
C20_NoStartAfterCancel == [][cancel_requested => calls' = calls]_vars

\* C21: runs that overlap in time each have their own history and report: no
\* record written by one run is in the history another run holds, reads for
\* its oracle and reports from, and no run's report holds another run's record.
C21_RunsIsolated ==
    \A r \in RunIds :
        /\ run_pc[r] # "idle" =>
               \A k \in DOMAIN dicts[run_state[r]] : dicts[run_state[r]][k] = r
        /\ run_report[r] # None =>
               \A i \in 1..Len(run_report[r][1]) : run_report[r][1][i].by = r

\* C22: the executor's history is empty when a run starts, and the summary a
\* run returns counts the records of that run only.
C22_HistoryPerRun ==
    flow = "test_suite" =>
        /\ (pc = "item" /\ step = 1) => executions_logs = << >>
        /\ (pc = "done" /\ test_results # None) =>
               test_results[1].total_tests
                   = Cardinality({executed[i].key : i \in 1..Len(executed)})

\* The operations a document of operations has under its path, and whether
\* all of them are well formed (a dict of details).
OperationsOf(doc) == Get(Get(doc, "paths"), "/p").items
WellFormed(doc) == \A i \in 1..Len(OperationsOf(doc)) : OperationsOf(doc)[i].val.k = "dict"

\* The operations whose response schema is a reference that cannot be followed.
Unfollowable(doc) ==
    {i \in 1..Len(OperationsOf(doc)) :
        /\ OperationsOf(doc)[i].val.k = "dict"
        /\ HasKey(Get(Get(OperationsOf(doc)[i].val, "responses"), "200"), "schema")
        /\ ResponseSchema(Get(OperationsOf(doc)[i].val, "responses"))
              \in {MissingRef, ThroughString}}

\* The reference of operation i of the document is in the list as it was written.
Verbatim(doc, i, endpoints) ==
    \E j \in 1..Len(endpoints) :
        /\ endpoints[j].method \in {OperationsOf(doc)[i].key, Upper(OperationsOf(doc)[i].key)}
        /\ HasKey(Get(endpoints[j].responses, "200"), "schema")
        /\ ResponseSchema(endpoints[j].responses)
              = ResponseSchema(Get(OperationsOf(doc)[i].val, "responses"))

\* C23: a reference whose pointer cannot be followed is returned as it was
\* written, and no exception leaves the resolver, in SwaggerParser and in
\* sat_core's parse_swagger alike.
C23_UnresolvedVerbatim ==
    /\ \A n \in 1..Len(extracted) :
           \A i \in Unfollowable(extracted[n].doc) :
               Verbatim(extracted[n].doc, i, extracted[n].endpoints)
    /\ \A n \in 1..Len(parsed) :
           (WellFormed(parsed[n].doc) /\ Unfollowable(parsed[n].doc) # {}) =>
               /\ parsed[n].endpoints # None
               /\ \A i \in Unfollowable(parsed[n].doc) :
                      Verbatim(parsed[n].doc, i, parsed[n].endpoints[1])

\* C24: resolution is pure: an extract_endpoints run leaves the document it
\* was given as it was.
C24_DocumentUnchanged ==
    [][Len(extracted') > Len(extracted) => swagger_data' = swagger_data]_vars

\* The operations of a document whose extraction meets no failure: the details
\* are a dict and every reference in them can be walked.
Sound(doc) ==
    {i \in 1..Len(OperationsOf(doc)) :
        /\ OperationsOf(doc)[i].val.k = "dict"
        /\ i \notin Unfollowable(doc)}

\* C25: a failure while one operation is extracted does not abort the
\* extraction of the others: every other path/method pair is in the list.
C25_FailuresIsolated ==
    /\ \A n \in 1..Len(extracted) :
           \A i \in Sound(extracted[n].doc) :
               \E j \in 1..Len(extracted[n].endpoints) :
                   /\ extracted[n].endpoints[j].path = "/p"
                   /\ extracted[n].endpoints[j].method
                         = Upper(OperationsOf(extracted[n].doc)[i].key)
    /\ \A n \in 1..Len(parsed) :
           /\ parsed[n].endpoints # None
           /\ \A i \in Sound(parsed[n].doc) :
                  \E j \in 1..Len(parsed[n].endpoints[1]) :
                      /\ parsed[n].endpoints[1][j].path = "/p"
                      /\ parsed[n].endpoints[1][j].method
                            = OperationsOf(parsed[n].doc)[i].key

\* No two entries of an operation list have the same path and method.
UniquePairs(endpoints) ==
    \A j, k \in 1..Len(endpoints) :
        (endpoints[j].path = endpoints[k].path
         /\ endpoints[j].method = endpoints[k].method) => j = k

\* C30: in the operation list of one resolver run, (path, method) is unique.
C30_UniquePathMethod ==
    /\ \A n \in 1..Len(extracted) : UniquePairs(extracted[n].endpoints)
    /\ \A n \in 1..Len(parsed) :
           parsed[n].endpoints # None => UniquePairs(parsed[n].endpoints[1])

\* What add_execution_logs has to build a test's entry from, apart from the
\* test's name: the request and the response of its history record.
ReportData(e) == [request_data |-> e.rec.request, response_data |-> e.rec.response]

\* The enrichment of the execution fell back to the stored template.
UsedFallback(e) == e.text = "garbage"

\* C26: whenever enrichment falls back to the template, the report flags the
\* test as having used fallback: what the report is given about a test that
\* fell back differs from what it is given about one that did not.
C26_FallbackFlagged ==
    \A i, j \in 1..Len(executed) :
        ReportData(executed[i]) = ReportData(executed[j])
            => (UsedFallback(executed[i]) <=> UsedFallback(executed[j]))

\* C27: every outcome the HTTP client returns, a response or an error, has its
\* elapsed time in milliseconds set.
C27_ElapsedSet == pc \in {"record", "done"} => result.timed

\* The flows that run one exemplar per endpoint.
PositiveFlows == {"execute_positive_flow", "run_positive_flow_node", "run_positive_flow"}

\* C28: a positive flow executes at most one exemplar case per endpoint in a
\* run, and the case chosen for an endpoint is a positive one whenever the
\* endpoint has a positive case.
C28_OnePositiveExemplar ==
    \A n \in 1..Len(exemplars) :
        exemplars[n].by \in PositiveFlows =>
            LET cases == exemplars[n].cases IN
            /\ \A i, j \in 1..Len(cases) : cases[i].endpoint = cases[j].endpoint => i = j
            /\ \A i \in 1..Len(cases) :
                   (\E k \in 1..Len(mapping[cases[i].endpoint]) :
                        mapping[cases[i].endpoint][k].test_type = "positive")
                       => cases[i].test_type = "positive"

\* C29: every field container of a test case is a map, never null or absent,
\* so that no request fails to be built because a container is missing.
C29_ContainersTotal ==
    \A n \in 1..Len(exemplars) :
        /\ exemplars[n].raised # "KeyError"
        /\ \A i \in 1..Len(exemplars[n].cases) : exemplars[n].cases[i].headers = "map"

\* The operations a table holds.
StoredIn(rows) == {rows[i] : i \in 1..Len(rows)}

\* C31: after a specification has been ingested, the stored operations are
\* exactly the operations of that specification: nothing of an earlier one
\* is left, and nothing is stored twice.
C31_Superseded ==
    ingested # None =>
        LET last == ingested[1]
            ops == {StoredOperation(op) : op \in last.spec}
        IN  /\ last.by = "insert_apis_into_db" => api_endpoints = ops
            /\ last.by = "ingest_file_to_db" =>
                   /\ StoredIn(api_specs) = ops
                   /\ Len(api_specs) = Cardinality(ops)

\* The endpoints a list names, of those that exist.
Named(ids) == {ids[i] : i \in 1..Len(ids)} \cap DOMAIN endpoint_tables

\* C32: a request that was accepted with a list naming endpoints has exactly
\* those endpoints tested, and one with an empty list has every endpoint
\* tested.
C32_ListedEndpoints ==
    \A n \in 1..Len(selections) :
        LET sel == selections[n]
            tested == {sel.tested[i] : i \in 1..Len(sel.tested)}
        IN  sel.status = 200 =>
                /\ sel.raised = "none"
                /\ tested = IF sel.endpoints_list = << >> THEN DOMAIN endpoint_tables
                            ELSE Named(sel.endpoints_list)

\* C33: every item executed during a run, by the positive flow or by the
\* all-tests flow, is consumed by the reporter: the total of the final report
\* is the number of execution records the run produced.
C33_ReportConsumesAll ==
    (current_step = "END" /\ test_results # None)
        => test_results[1].total_tests = Len(executed)

\* The pairs of the single-key maps of a planning answer, in order.
RECURSIVE SingleKeyPairs(_)
SingleKeyPairs(items) ==
    IF items = << >> THEN << >>
    ELSE (IF Head(items).k = "map" /\ Len(Head(items).pairs) = 1
          THEN Head(items).pairs ELSE << >>) \o SingleKeyPairs(Tail(items))

\* C34: whatever text the planning oracle returns, the sequencer does not
\* fail: an answer that is no list is an empty plan, and of a list every
\* item that is a single-key map is gone through, the others being skipped.
C34_LoosePlan ==
    \A n \in 1..Len(plannings) :
        LET g == plannings[n]
            due == IF g.text.k = "list" THEN SingleKeyPairs(g.text.items) ELSE << >>
        IN  /\ g.raised = "none"
            /\ g.text.k # "list" => g.ran = << >>
            /\ \A i \in 1..Len(due) : \E j \in 1..Len(g.ran) : g.ran[j] = due[i]

\* C35: whatever the reporter has been through, the summary of a serialized
\* report agrees with the results the same serialization lists, and the
\* text form shows the counts the JSON form shows.
C35_FormsAgree ==
    serialized # None =>
        LET json == serialized[1].json
            text == serialized[1].text
        IN  /\ json.summary # None
            /\ json.summary[1].total_tests = Len(json.test_results)
            /\ text.raised = "none"
            /\ text.total_tests = json.summary[1].total_tests
            /\ text.passed_tests = json.summary[1].passed_tests
            /\ text.failed_tests = json.summary[1].failed_tests
            /\ text.listed = text.total_tests

\* C36: the delay before the i-th retry of a call is 0.5 s doubled i - 1
\* times, and 5 s where that would be more: 0.5, 1, 2, 4, 5, 5, ...
C36_Backoff ==
    backoff # None =>
        \A i \in 1..Len(backoff[1].sleeps) :
            backoff[1].sleeps[i] = IF 500 * 2^(i - 1) < 5000 THEN 500 * 2^(i - 1) ELSE 5000

\* A request that has slept six times, the last two for the ceiling.
C36_Witness ==
    /\ backoff # None
    /\ backoff[1].by = "make_request"
    /\ backoff[1].sleeps = << 500, 1000, 2000, 4000, 5000, 5000 >>

\* C37: an outcome without a status code, a call that ended in a network
\* error, is never validated as passed, whatever status is expected, none
\* included.
C37_NoStatusNeverPasses ==
    (validation # None /\ validation[1].result.status_code = None)
        => ~validation[1].return.passed

\* C38: the summary a direct execution route returns counts the cases it
\* executed, as passed those whose response was a success and as failed the
\* others, whether or not the test names are unique.
C38_DirectSummary ==
    direct # None =>
        LET cases == direct[1].cases
            ok == Cardinality({i \in 1..Len(cases) : cases[i].success})
        IN  /\ direct[1].results.raised = "none"
            /\ direct[1].results.total_tests = Len(cases)
            /\ direct[1].results.passed_tests = ok
            /\ direct[1].results.failed_tests = Len(cases) - ok

\* --------------------------------------------------------- workflow status

\* The steps get_completion_status counts a workflow in.
total_steps ==
    << "database_initialization", "endpoint_parsing", "endpoint_storage",
       "test_case_generation", "test_case_validation", "test_case_persistence",
       "execution_planning", "test_execution", "report_generation" >>

\* The step each node of the graph marks completed when it comes through; ""
\* for a node that marks none.
StepOf(node) ==
    CASE node = "initialize_database" -> "database_initialization"
      [] node = "parse_swagger_file" -> "endpoint_parsing"
      [] node = "store_endpoints" -> "endpoint_storage"
      [] node = "fetch_endpoints" -> ""
      [] node = "generate_test_cases" -> "test_case_generation"
      [] node = "persist_test_cases" -> "test_case_persistence"
      [] node = "plan_execution_order" -> "execution_planning"
      [] node = "run_positive_flow" -> "positive_flow_execution"
      [] node = "run_all_possible_tests" -> "all_tests_execution"
      [] node = "generate_report" -> "report_generation"

\* StateManager.mark_step_completed: appended unless already there.
mark_step_completed(completed_steps, step_name) ==
    IF \E i \in 1..Len(completed_steps) : completed_steps[i] = step_name
    THEN completed_steps
    ELSE Append(completed_steps, step_name)

\* StateManager.get_completion_status.  completion_percentage is
\* (len(completed_steps) / len(total_steps)) * 100, kept here as the fraction
\* num / den: it is 100 when num = 100 * den.
get_completion_status(completed_steps) ==
    [total_steps |-> Len(total_steps),
     completed_steps |-> Len(completed_steps),
     completion_percentage |-> [num |-> Len(completed_steps) * 100,
                                den |-> Len(total_steps)],
     completed_step_names |-> completed_steps,
     remaining_steps |->
         SelectSeq(total_steps,
                   LAMBDA s : \A i \in 1..Len(completed_steps) :
                                 completed_steps[i] # s)]

\* The nodes of the graph, END apart.
GraphNodes == {Nodes[i] : i \in 1..(Len(Nodes) - 1)}

InitStatus == SeqIdle /\ ResolverIdle /\ ReportIdle /\ ServerIdle

\* APITestingAgent.run: the StateManager takes the initial state, no step
\* completed, and the graph is entered at its first node.
RunAgent ==
    /\ IF marked = None THEN TRUE ELSE marked[1].node = "END"
    /\ marked' = Some([node |-> Nodes[1], completed_steps |-> << >>,
                       succeeded |-> {}])
    /\ UNCHANGED exceptMarked
    /\ UNCHANGED <<seqVars, resVars, repVars, state_manager, run_pc, run_state,
                   run_step, dicts, current_report, run_report, carried, selVars>>

\* One node of the graph: it comes through and marks its step, or what it
\* calls fails or raises and it adds an error instead; either way it returns
\* the state and the graph goes on to the next node.
WorkflowNode ==
    /\ marked # None
    /\ marked[1].node \in GraphNodes
    /\ \E ok \in BOOLEAN :
          LET node == marked[1].node
              step_name == StepOf(node)
          IN  marked' = Some([node |-> NextNode(node),
                              completed_steps |->
                                  IF ok /\ step_name # ""
                                  THEN mark_step_completed(marked[1].completed_steps,
                                                           step_name)
                                  ELSE marked[1].completed_steps,
                              succeeded |->
                                  IF ok THEN marked[1].succeeded \cup {node}
                                  ELSE marked[1].succeeded])
    /\ UNCHANGED exceptMarked
    /\ UNCHANGED <<seqVars, resVars, repVars, state_manager, run_pc, run_state,
                   run_step, dicts, current_report, run_report, carried, selVars>>

NextStatus ==
    \/ RunAgent
    \/ WorkflowNode

SpecStatus == InitStatus /\ [][NextStatus]_vars

\* C39: the status of a workflow agrees with the steps it marked:
\* completion_percentage is 100 exactly when remaining_steps is empty, and
\* once every node of a run has come through, the percentage is 100 and no
\* step remains.
C39_StatusConsistent ==
    marked # None =>
        LET status == get_completion_status(marked[1].completed_steps)
            complete == status.completion_percentage.num
                            = 100 * status.completion_percentage.den
        IN  /\ complete <=> (status.remaining_steps = << >>)
            /\ (marked[1].node = "END" /\ marked[1].succeeded = GraphNodes)
                   => (complete /\ status.remaining_steps = << >>)

====
